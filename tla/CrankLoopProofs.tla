-------------------------- MODULE CrankLoopProofs --------------------------
(***************************************************************************)
(* Fuel is bounded and cuts last, for every engine, wheel, speed and queue *)
(* size, a loop of at most four cylinders never panics, a roomy queue      *)
(* drops no edge, and the cam phase is then the right one.                 *)
(***************************************************************************)
EXTENDS CrankLoop, MissingToothProofs, SequenceTheorems, FiniteSetTheorems

Job == [do : {"fire", "inject", "panic"}, cyl : Cylinders]

\* Work s opens the injector of cylinder c.
Opens(s, c) == \E i \in DOMAIN s : s[i].do = "inject" /\ s[i].cyl = c

\* Work s opens no injector twice.
OpensOnce(s) ==
    \A i, j \in DOMAIN s :
        s[i].do = "inject" /\ s[j].do = "inject" /\ s[i].cyl = s[j].cyl => i = j

Bit(b) == IF b THEN 1 ELSE 0

\* An injection on its way counts already: without it neither bound is inductive.
FuelInv ==
    /\ OpensOnce(jobs)
    /\ \A c \in Cylinders :
        fuel[c] + Bit(Opens(jobs, c)) <= Bit(batched) + Bit(c \in injected)

CutInv == dfcoActive => \A c \in Cylinders : fuel[c] = 0 /\ ~Opens(jobs, c)

PanicInv == Len(FiringOrder) <= TdcAngles => \A i \in DOMAIN jobs : jobs[i].do # "panic"

Bounds == FuelInv /\ CutInv /\ PanicInv

----------------------------------------------------------------------------
(* The work of a tooth.                                                    *)

LEMMA Order ==
    /\ Len(FiringOrder) \in Nat \ {0}
    /\ DOMAIN FiringOrder = 1 .. Len(FiringOrder)
    /\ \A i \in 1 .. Len(FiringOrder) : FiringOrder[i] \in Cylinders
BY LoopAssumption DEF Cylinders

\* Each cylinder's actions come once, in the order given.
LEMMA JobsOfEach ==
    ASSUME NEW actions \in {<<>>, <<"fire">>, <<"inject">>, <<"fire", "inject">>}
    PROVE  /\ JobsOf(actions) \in Seq(Job)
           /\ Len(JobsOf(actions)) \in 0 .. 2 * Len(FiringOrder)
           /\ OpensOnce(JobsOf(actions))
           /\ actions \in {<<>>, <<"fire">>} => \A c \in Cylinders : ~Opens(JobsOf(actions), c)
           /\ Len(FiringOrder) <= TdcAngles =>
                \A i \in DOMAIN JobsOf(actions) : JobsOf(actions)[i].do # "panic"
<1> DEFINE n == IF Len(FiringOrder) < TdcAngles THEN Len(FiringOrder) ELSE TdcAngles
           k == Len(actions)
           Cyl(i) == 1 + ((i - 1) \div k)
           Act(i) == 1 + ((i - 1) % k)
           driven == [i \in 1 .. n * k |-> [do |-> actions[Act(i)], cyl |-> FiringOrder[Cyl(i)]]]
           stop == IF Len(FiringOrder) > TdcAngles
                   THEN <<[do |-> "panic", cyl |-> FiringOrder[TdcAngles + 1]]>> ELSE <<>>
<1>1. JobsOf(actions) = driven \o stop
  BY DEF JobsOf
<1>2. n \in 1 .. Len(FiringOrder) /\ n \in 1 .. 4 /\ k \in 0 .. 2 /\ n * k \in Nat
  BY Order DEF TdcAngles
<1>3. \A i \in 1 .. n * k : Cyl(i) \in 1 .. n /\ Act(i) \in 1 .. k
  <2>1. CASE k = 0
    BY <1>2, <2>1
  <2>2. CASE k = 1
    BY <1>2, <2>2
  <2>3. CASE k = 2
    BY <1>2, <2>3
  <2> QED BY <1>2, <2>1, <2>2, <2>3
<1>4. \A i, j \in 1 .. n * k : Cyl(i) = Cyl(j) /\ Act(i) = Act(j) => i = j
  <2>1. CASE k = 0
    BY <1>2, <2>1
  <2>2. CASE k = 1
    BY <1>2, <2>2
  <2>3. CASE k = 2
    BY <1>2, <2>3
  <2> QED BY <1>2, <2>1, <2>2, <2>3
<1>5. \A i \in 1 .. k : actions[i] \in {"fire", "inject"}
  OBVIOUS
<1>6. \A i, j \in 1 .. k : actions[i] = "inject" /\ actions[j] = "inject" => i = j
  OBVIOUS
<1>7. actions \in {<<>>, <<"fire">>} => \A i \in 1 .. k : actions[i] # "inject"
  OBVIOUS
<1> HIDE DEF n, k, Cyl, Act
<1>8. \A i \in 1 .. n * k : driven[i] \in Job /\ driven[i].do # "panic"
  <2> SUFFICES ASSUME NEW i \in 1 .. n * k
               PROVE  driven[i] \in Job /\ driven[i].do # "panic"
    OBVIOUS
  <2>1. Cyl(i) \in 1 .. n /\ Act(i) \in 1 .. k
    BY <1>3
  <2>2. Cyl(i) \in 1 .. Len(FiringOrder)
    BY <2>1, <1>2
  <2>3. FiringOrder[Cyl(i)] \in Cylinders /\ actions[Act(i)] \in {"fire", "inject"}
    BY <2>1, <2>2, <1>5, Order
  <2>4. driven[i] = [do |-> actions[Act(i)], cyl |-> FiringOrder[Cyl(i)]]
    OBVIOUS
  <2> QED BY <2>3, <2>4 DEF Job
<1>9. driven \in Seq(Job) /\ Len(driven) = n * k
  BY <1>2, <1>8
<1>10. stop \in Seq(Job) /\ \A i \in DOMAIN stop : stop[i].do = "panic"
  <2>1. CASE Len(FiringOrder) > TdcAngles
    <3>1. TdcAngles + 1 \in 1 .. Len(FiringOrder)
      BY <2>1, Order DEF TdcAngles
    <3>2. FiringOrder[TdcAngles + 1] \in Cylinders
      BY <3>1, Order
    <3>3. [do |-> "panic", cyl |-> FiringOrder[TdcAngles + 1]] \in Job
      BY <3>2 DEF Job
    <3> QED BY <2>1, <3>3
  <2>2. CASE ~(Len(FiringOrder) > TdcAngles)
    BY <2>2
  <2> QED BY <2>1, <2>2
<1>11. \A i, j \in 1 .. n * k :
         driven[i].do = "inject" /\ driven[j].do = "inject" /\ driven[i].cyl = driven[j].cyl => i = j
  <2> SUFFICES ASSUME NEW i \in 1 .. n * k, NEW j \in 1 .. n * k,
                      actions[Act(i)] = "inject", actions[Act(j)] = "inject",
                      FiringOrder[Cyl(i)] = FiringOrder[Cyl(j)]
               PROVE  i = j
    OBVIOUS
  <2>1. Act(i) = Act(j)
    BY <1>3, <1>6
  <2>2. Cyl(i) \in DOMAIN FiringOrder /\ Cyl(j) \in DOMAIN FiringOrder
    BY <1>2, <1>3, Order
  <2>3. Cyl(i) = Cyl(j)
    BY <2>2, LoopAssumption
  <2> QED BY <1>4, <2>1, <2>3
<1>12. actions \in {<<>>, <<"fire">>} => \A i \in 1 .. n * k : driven[i].do # "inject"
  BY <1>3, <1>7
<1>13. /\ Len(FiringOrder) <= TdcAngles => stop = <<>>
       /\ Len(stop) = IF Len(FiringOrder) > TdcAngles THEN 1 ELSE 0
  BY Order DEF TdcAngles
<1>l. n * k \in 0 .. 2 * n /\ n <= Len(FiringOrder) /\ n \in Nat
      /\ (Len(FiringOrder) > TdcAngles => n = 4 /\ Len(FiringOrder) >= 5)
  <2>1. \A x \in 0 .. 2, y \in 1 .. 4 : y * x \in 0 .. 2 * y
    OBVIOUS
  <2> QED BY <1>2, <2>1, Order DEF n, TdcAngles
<1> HIDE DEF driven, stop
<1>14. driven \o stop \in Seq(Job) /\ Len(driven \o stop) = Len(driven) + Len(stop)
  BY <1>9, <1>10
<1>18. Len(driven \o stop) \in 0 .. 2 * Len(FiringOrder)
  BY <1>9, <1>13, <1>14, <1>l, Order DEF TdcAngles
<1>15. \A i \in DOMAIN (driven \o stop) :
         \/ i \in 1 .. n * k /\ (driven \o stop)[i] = driven[i]
         \/ (driven \o stop)[i].do = "panic"
  BY <1>9, <1>10
<1>16. OpensOnce(driven \o stop)
  BY <1>11, <1>15 DEF OpensOnce
<1>17. Len(FiringOrder) <= TdcAngles => \A i \in DOMAIN (driven \o stop) : (driven \o stop)[i].do # "panic"
  <2> SUFFICES ASSUME Len(FiringOrder) <= TdcAngles, NEW i \in DOMAIN (driven \o stop)
               PROVE  (driven \o stop)[i].do # "panic"
    OBVIOUS
  <2>1. driven \o stop = driven
    BY <1>9, <1>13
  <2> QED BY <1>8, <1>9, <2>1
<1> QED BY <1>1, <1>12, <1>14, <1>15, <1>16, <1>17, <1>18 DEF Opens

LEMMA FireThenInject == <<"fire">> \o <<"inject">> = <<"fire", "inject">>
<1> DEFINE S == {"fire", "inject"}
<1>1. /\ <<"fire">> \in Seq(S) /\ <<"inject">> \in Seq(S) /\ <<"fire", "inject">> \in Seq(S)
      /\ Len(<<"fire">>) = 1 /\ Len(<<"inject">>) = 1 /\ Len(<<"fire", "inject">>) = 2
      /\ <<"fire">>[1] = "fire" /\ <<"inject">>[1] = "inject"
      /\ <<"fire", "inject">>[1] = "fire" /\ <<"fire", "inject">>[2] = "inject"
  OBVIOUS
<1>2. \A s, t \in Seq(S) : Len(s) = 1 /\ Len(t) = 1 =>
        s \o t \in Seq(S) /\ Len(s \o t) = 2 /\ (s \o t)[1] = s[1] /\ (s \o t)[2] = t[1]
  <2> HIDE DEF S
  <2> SUFFICES ASSUME NEW s \in Seq(S), NEW t \in Seq(S), Len(s) = 1, Len(t) = 1
               PROVE  s \o t \in Seq(S) /\ Len(s \o t) = 2 /\ (s \o t)[1] = s[1] /\ (s \o t)[2] = t[1]
    OBVIOUS
  <2> QED BY ConcatProperties
<1>3. \A s, t \in Seq(S) : Len(s) = 2 /\ Len(t) = 2 /\ s[1] = t[1] /\ s[2] = t[2] => s = t
  BY SeqEqual
<1> HIDE DEF S
<1> QED BY <1>1, <1>2, <1>3

LEMMA ReferenceWork ==
    ASSUME NEW cut \in BOOLEAN, NEW batch \in BOOLEAN
    PROVE  /\ ReferenceJobs(cut, batch) \in Seq(Job)
           /\ Len(ReferenceJobs(cut, batch)) \in 0 .. 2 * Len(FiringOrder)
           /\ OpensOnce(ReferenceJobs(cut, batch))
           /\ ~batch => \A c \in Cylinders : ~Opens(ReferenceJobs(cut, batch), c)
           /\ Len(FiringOrder) <= TdcAngles =>
                \A i \in DOMAIN ReferenceJobs(cut, batch) : ReferenceJobs(cut, batch)[i].do # "panic"
<1> DEFINE acts == (IF cut THEN <<>> ELSE <<"fire">>) \o (IF batch THEN <<"inject">> ELSE <<>>)
<1>1. /\ acts \in {<<>>, <<"fire">>, <<"inject">>, <<"fire", "inject">>}
      /\ ~batch => acts \in {<<>>, <<"fire">>}
  <2>1. CASE cut /\ batch
    BY <2>1
  <2>2. CASE cut /\ ~batch
    BY <2>2
  <2>3. CASE ~cut /\ batch
    <3>1. acts = <<"fire">> \o <<"inject">>
      BY <2>3
    <3>3. acts = <<"fire", "inject">>
      BY <3>1, FireThenInject
    <3> QED BY <2>3, <3>3
  <2>4. CASE ~cut /\ ~batch
    BY <2>4
  <2> QED BY <2>1, <2>2, <2>3, <2>4
<1>2. ReferenceJobs(cut, batch) = JobsOf(acts)
  BY DEF ReferenceJobs
<1> QED BY <1>1, <1>2, JobsOfEach

\* The sequential path opens at most one injector, of a cylinder not served yet, and none in a cut.
LEMMA SequentialWork ==
    ASSUME NEW d, NEW served \in SUBSET Cylinders, NEW cut \in BOOLEAN
    PROVE  LET cs == ToServe(d, served, cut)
           IN /\ cs \subseteq Cylinders \ served
              /\ cut => cs = {}
              /\ d.sync # "FullSync" => cs = {}
              /\ SequentialJobs(cs) \in Seq(Job)
              /\ OpensOnce(SequentialJobs(cs))
              /\ \A c \in Cylinders : Opens(SequentialJobs(cs), c) => c \in cs
              /\ \A i \in DOMAIN SequentialJobs(cs) : SequentialJobs(cs)[i].do # "panic"
<1> DEFINE cs == ToServe(d, served, cut)
           c0 == CHOOSE c \in cs : TRUE
<1>1. cs \subseteq Cylinders \ served /\ (cut => cs = {}) /\ (d.sync # "FullSync" => cs = {})
  BY DEF ToServe, Scheduled
<1>2. CASE cs = {}
  BY <1>1, <1>2 DEF SequentialJobs, OpensOnce, Opens
<1>3. CASE cs # {}
  <2>1. c0 \in cs
    BY <1>3
  <2>2. SequentialJobs(cs) = <<[do |-> "inject", cyl |-> c0]>>
    BY <1>3 DEF SequentialJobs
  <2>3. [do |-> "inject", cyl |-> c0] \in Job
    BY <1>1, <2>1 DEF Job
  <2> QED BY <1>1, <2>1, <2>2, <2>3 DEF OpensOnce, Opens
<1> QED BY <1>2, <1>3

----------------------------------------------------------------------------
(* Types.                                                                  *)

LEMMA QueueType ==
    ASSUME TypeOK, Draining
    PROVE  /\ Result.dec \in Decoder
           /\ Tail(crankQ) \in Seq(Nat) /\ Len(Tail(crankQ)) <= QueueCap
<1>1. crankQ \in Seq(Nat) /\ crankQ # <<>> /\ Len(crankQ) <= QueueCap /\ QueueCap \in Nat
  BY LoopAssumption DEF TypeOK, Draining
<1>2. Head(crankQ) \in Nat /\ Tail(crankQ) \in Seq(Nat) /\ Len(Tail(crankQ)) <= QueueCap
  BY <1>1
<1>3. decoder \in Decoder
  BY DEF TypeOK
<1> QED BY <1>2, <1>3, ProcessCrankType DEF Result

LEMMA SleepType ==
    ASSUME TypeOK, NEW work \in Seq(Job), Sleep(work), speed' = speed
    PROVE  jobs' \in Seq(Job) /\ budget' \in 0 .. speed'
<1>1. speed \in Nat
  BY LoopAssumption DEF TypeOK
<1> QED BY <1>1 DEF Sleep

LEMMA EdgeTimes == \A p \in 0 .. NormalEdges : EdgeTime(p) \in Nat /\ Turn(p) \in 0 .. NormalEdges
<1>1. ExpectedGapRatio \in Nat /\ Period \in Nat /\ NormalEdges \in Nat
  BY LoopAssumption, WheelAssumption DEF ExpectedGapRatio
<1>2. ExpectedGapRatio * Period \in Nat
  BY <1>1
<1> QED BY <1>1, <1>2 DEF EdgeTime, Turn

LEMMA TypeInit == Init => TypeOK
<1> SUFFICES ASSUME Init PROVE TypeOK
  OBVIOUS
<1>1. pos \in 0 .. NormalEdges /\ carry \in Nat /\ speed \in Speeds /\ budget \in 0 .. speed
  BY LoopAssumption DEF Init
<1>2. cammed \in BOOLEAN /\ camQ \in BOOLEAN /\ seqActive \in BOOLEAN /\ dfcoActive \in BOOLEAN
      /\ yielding \in BOOLEAN /\ batched \in BOOLEAN /\ lost \in BOOLEAN
  BY DEF Init
<1>3. crankQ \in Seq(Nat) /\ Len(crankQ) <= QueueCap
  BY LoopAssumption DEF Init
<1>4. decoder \in Decoder
  BY NewDecoderType DEF Init
<1>5. injected \subseteq Cylinders /\ jobs \in Seq(Job) /\ fuel \in [Cylinders -> Nat]
  BY DEF Init
<1> QED BY <1>1, <1>2, <1>3, <1>4, <1>5 DEF TypeOK, Job

LEMMA TypeStep ==
    ASSUME TypeOK, Next
    PROVE  TypeOK'
<1>0. /\ pos \in 0 .. NormalEdges /\ carry \in Nat /\ speed \in Speeds /\ speed \in Nat /\ budget \in 0 .. speed
      /\ crankQ \in Seq(Nat) /\ Len(crankQ) <= QueueCap /\ QueueCap \in Nat
      /\ decoder \in Decoder /\ injected \subseteq Cylinders /\ jobs \in Seq(Job)
      /\ fuel \in [Cylinders -> Nat]
  BY LoopAssumption DEF TypeOK, Job
<1>b. cammed \in BOOLEAN /\ camQ \in BOOLEAN /\ seqActive \in BOOLEAN /\ dfcoActive \in BOOLEAN
      /\ yielding \in BOOLEAN /\ batched \in BOOLEAN /\ lost \in BOOLEAN
  BY DEF TypeOK
<1>z. [c \in Cylinders |-> 0] \in [Cylinders -> Nat]
  OBVIOUS
<1>1. CASE CrankEdge
  <2>1. EdgeTime(pos) \in Nat /\ Turn(pos) \in 0 .. NormalEdges
    BY <1>0, EdgeTimes
  <2>2. pos' \in 0 .. NormalEdges /\ speed' \in Speeds /\ budget' \in 0 .. speed'
    BY <1>0, <1>1, <2>1 DEF CrankEdge
  <2>3. crankQ' \in Seq(Nat) /\ Len(crankQ') <= QueueCap /\ carry' \in Nat
    <3>1. carry + EdgeTime(pos) \in Nat
      BY <1>0, <2>1
    <3>2. CASE Len(crankQ) < QueueCap
      <4>1. crankQ' = Append(crankQ, carry + EdgeTime(pos)) /\ carry' = 0
        BY <1>1, <3>2 DEF CrankEdge
      <4>2. crankQ' \in Seq(Nat) /\ Len(crankQ') = Len(crankQ) + 1
        BY <1>0, <3>1, <4>1
      <4> QED BY <1>0, <3>2, <4>1, <4>2
    <3>3. CASE ~(Len(crankQ) < QueueCap)
      <4>1. crankQ' = crankQ /\ carry' = carry + EdgeTime(pos)
        BY <1>1, <3>3 DEF CrankEdge
      <4> QED BY <1>0, <3>1, <4>1
    <3> QED BY <3>2, <3>3
  <2>4. cammed' \in BOOLEAN
    BY <1>1, Zenon DEF CrankEdge
  <2>5. lost' \in BOOLEAN
    BY <1>1, <1>b, Zenon DEF CrankEdge
  <2>6. UNCHANGED <<camQ, decoder, seqActive, injected, dfcoActive, jobs, yielding, fuel, batched>>
    BY <1>1 DEF CrankEdge, loop
  <2> QED BY <1>0, <1>b, <2>2, <2>3, <2>4, <2>5, <2>6, Zenon DEF TypeOK, Job
<1>2. CASE CamEdge
  <2>1. cammed' \in BOOLEAN /\ camQ' \in BOOLEAN
    BY <1>2 DEF CamEdge
  <2>2. UNCHANGED <<speed, pos, carry, crankQ, budget, loop, history>>
    BY <1>2 DEF CamEdge
  <2> QED BY <1>0, <1>b, <2>1, <2>2, Zenon DEF TypeOK, Job, loop, history
<1>3. CASE ReferenceTooth
  <2>1. decoder' \in Decoder /\ crankQ' \in Seq(Nat) /\ Len(crankQ') <= QueueCap
    BY <1>3, QueueType DEF ReferenceTooth
  <2>2. dfcoActive' \in BOOLEAN
    BY <1>3, LoopAssumption DEF ReferenceTooth
  <2>3. batched' \in BOOLEAN
    BY <1>3, Zenon DEF ReferenceTooth
  <2>4. seqActive' \in BOOLEAN
    BY <1>3, Zenon DEF ReferenceTooth
  <2>5. injected' \subseteq Cylinders /\ SequentialJobs(injected') \in Seq(Job)
    <3>1. injected' = ToServe(decoder', {}, dfcoActive')
      BY <1>3 DEF ReferenceTooth
    <3> QED BY <2>2, <3>1, SequentialWork
  <2>6. jobs' \in Seq(Job) /\ budget' \in 0 .. speed' /\ speed' = speed
    <3>1. PICK cut \in SparkCuts : Sleep(ReferenceJobs(cut, batched') \o SequentialJobs(injected'))
      BY <1>3 DEF ReferenceTooth
    <3>2. cut \in BOOLEAN
      BY LoopAssumption
    <3>3. ReferenceJobs(cut, batched') \in Seq(Job)
      BY <2>3, <3>2, ReferenceWork
    <3>4. ReferenceJobs(cut, batched') \o SequentialJobs(injected') \in Seq(Job)
      BY <2>5, <3>3
    <3>5. speed' = speed
      BY <1>3 DEF ReferenceTooth, wheel
    <3> QED BY <3>1, <3>4, <3>5, SleepType
  <2>7. fuel' \in [Cylinders -> Nat] /\ UNCHANGED <<wheel, camQ, yielding, lost>>
    BY <1>3, <1>z DEF ReferenceTooth
  <2> QED BY <1>0, <1>b, <2>1, <2>2, <2>3, <2>4, <2>5, <2>6, <2>7, Zenon DEF TypeOK, Job, wheel
<1>4. CASE PlainTooth
  <2>1. decoder' \in Decoder /\ crankQ' \in Seq(Nat) /\ Len(crankQ') <= QueueCap
    BY <1>4, QueueType DEF PlainTooth
  <2>2. seqActive' \in BOOLEAN
    BY <1>4, Zenon DEF PlainTooth
  <2> DEFINE serve == ToServe(decoder', injected, dfcoActive)
  <2>3. serve \subseteq Cylinders /\ SequentialJobs(serve) \in Seq(Job)
    BY <1>0, <1>b, SequentialWork
  <2>4. injected' = injected \cup serve /\ Sleep(SequentialJobs(serve))
    BY <1>4 DEF PlainTooth
  <2>5. UNCHANGED <<wheel, camQ, dfcoActive, yielding, history>>
    BY <1>4 DEF PlainTooth
  <2>6. jobs' \in Seq(Job) /\ budget' \in 0 .. speed'
    BY <2>3, <2>4, <2>5, SleepType DEF wheel
  <2>7. injected' \subseteq Cylinders
    BY <1>0, <2>3, <2>4
  <2> QED BY <1>0, <1>b, <2>1, <2>2, <2>5, <2>6, <2>7, Zenon DEF TypeOK, Job, wheel, history
<1>5. CASE SlowTooth
  <2>1. decoder' \in Decoder /\ crankQ' \in Seq(Nat) /\ Len(crankQ') <= QueueCap
    BY <1>5, QueueType DEF SlowTooth
  <2>2. injected' \subseteq Cylinders /\ fuel' \in [Cylinders -> Nat]
    BY <1>0, <1>5, <1>z DEF SlowTooth
  <2>3. batched' \in BOOLEAN
    BY <1>b, <1>5, Zenon DEF SlowTooth
  <2>4. UNCHANGED <<wheel, camQ, budget, seqActive, dfcoActive, jobs, yielding, lost>>
    BY <1>5 DEF SlowTooth
  <2> QED BY <1>0, <1>b, <2>1, <2>2, <2>3, <2>4, Zenon DEF TypeOK, Job, wheel
<1>6. CASE BadTooth
  <2>1. decoder' \in Decoder /\ crankQ' \in Seq(Nat) /\ Len(crankQ') <= QueueCap
    BY <1>6, QueueType, NewDecoderType DEF BadTooth, Reset
  <2>2. UNCHANGED <<wheel, camQ, budget, seqActive, injected, dfcoActive, jobs, yielding, history>>
    BY <1>6 DEF BadTooth
  <2> QED BY <1>0, <1>b, <2>1, <2>2, Zenon DEF TypeOK, Job, wheel, history
<1>7. CASE FinishJob
  <2>1. Tail(jobs) \in Seq(Job) /\ Head(jobs) \in Job /\ Sleep(Tail(jobs))
    BY <1>0, <1>7 DEF FinishJob
  <2>2. UNCHANGED <<wheel, queues, decoder, seqActive, injected, dfcoActive, yielding, batched, lost>>
    BY <1>7 DEF FinishJob
  <2>3. jobs' \in Seq(Job) /\ budget' \in 0 .. speed'
    BY <2>1, <2>2, SleepType DEF wheel
  <2>4. fuel' \in [Cylinders -> Nat]
    BY <1>0, <1>7, <2>1 DEF FinishJob, Job
  <2> QED BY <1>0, <1>b, <2>2, <2>3, <2>4, Zenon DEF TypeOK, Job, wheel, queues
<1>8. CASE CamThenYield
  <2>1. decoder' \in Decoder
    BY <1>0, <1>8, ProcessCamType DEF CamThenYield
  <2>2. camQ' \in BOOLEAN /\ yielding' \in BOOLEAN
    BY <1>8 DEF CamThenYield
  <2>3. budget' \in 0 .. speed /\ UNCHANGED <<wheel, crankQ, seqActive, injected, dfcoActive, jobs, history>>
    BY <1>0, <1>8 DEF CamThenYield
  <2> QED BY <1>0, <1>b, <2>1, <2>2, <2>3, Zenon DEF TypeOK, Job, wheel, history
<1>9. CASE Resume
  <2>1. yielding' \in BOOLEAN
    BY <1>9 DEF Resume
  <2>2. budget' \in 0 .. speed
        /\ UNCHANGED <<wheel, queues, decoder, seqActive, injected, dfcoActive, jobs, history>>
    BY <1>0, <1>9 DEF Resume
  <2> QED BY <1>0, <1>b, <2>1, <2>2, Zenon DEF TypeOK, Job, wheel, queues, history
<1> QED BY <1>1, <1>2, <1>3, <1>4, <1>5, <1>6, <1>7, <1>8, <1>9 DEF Next, LoopStep

----------------------------------------------------------------------------
(* Fuel, cuts and panics.                                                  *)

LEMMA BoundsInit == Init => Bounds
<1> SUFFICES ASSUME Init PROVE Bounds
  OBVIOUS
<1>1. jobs = <<>> /\ batched = FALSE /\ injected = {} /\ dfcoActive = FALSE
      /\ fuel = [c \in Cylinders |-> 0]
  BY DEF Init
<1>2. DOMAIN jobs = {}
  BY <1>1
<1> QED BY <1>1, <1>2 DEF Bounds, FuelInv, CutInv, PanicInv, OpensOnce, Opens, Bit

\* At a reference tooth the sequential path has nothing to do: the sync point is not in full sync.
LEMMA ReferenceToothWork ==
    ASSUME TypeOK, ReferenceTooth
    PROVE  /\ injected' = {}
           /\ batched' \in BOOLEAN /\ dfcoActive' \in BOOLEAN /\ (dfcoActive' => ~batched')
           /\ \E cut \in BOOLEAN : jobs' = ReferenceJobs(cut, batched')
<1>1. decoder' = ProcessCrank(decoder, Head(crankQ)).dec /\ decoder'.count = 0
      /\ ProcessCrank(decoder, Head(crankQ)).err = None
  BY DEF ReferenceTooth, Result
<1>2. decoder \in Decoder /\ Head(crankQ) \in Nat
  BY DEF TypeOK, ReferenceTooth, Draining
<1>3. decoder'.sync = "CrankSynced"
  BY <1>1, <1>2, SyncPointSync
<1>4. dfcoActive' \in BOOLEAN
  BY LoopAssumption DEF ReferenceTooth
<1>5. injected' = ToServe(decoder', {}, dfcoActive')
  BY DEF ReferenceTooth
<1>6. injected' = {}
  BY <1>3, <1>4, <1>5, SequentialWork
<1>7. batched' \in BOOLEAN
  BY Zenon DEF ReferenceTooth
<1>8. dfcoActive' => ~batched'
  BY Zenon DEF ReferenceTooth
<1>9. PICK cut \in SparkCuts : jobs' = ReferenceJobs(cut, batched') \o SequentialJobs(injected')
  BY DEF ReferenceTooth, Sleep
<1>10. cut \in BOOLEAN
  BY LoopAssumption
<1>11. jobs' = ReferenceJobs(cut, batched')
  <2>1. SequentialJobs(injected') = <<>>
    BY <1>6 DEF SequentialJobs
  <2>2. ReferenceJobs(cut, batched') \in Seq(Job)
    BY <1>7, <1>10, ReferenceWork
  <2> QED BY <1>9, <2>1, <2>2
<1> QED BY <1>4, <1>6, <1>7, <1>8, <1>10, <1>11

LEMMA BoundsStep ==
    ASSUME TypeOK, Bounds, Next
    PROVE  Bounds'
<1>0. /\ jobs \in Seq(Job) /\ fuel \in [Cylinders -> Nat] /\ injected \subseteq Cylinders
      /\ dfcoActive \in BOOLEAN /\ batched \in BOOLEAN
  BY DEF TypeOK, Job
<1>i. FuelInv /\ CutInv /\ PanicInv
  BY DEF Bounds
<1>u. ASSUME UNCHANGED <<jobs, fuel, injected, dfcoActive, batched>>
      PROVE  Bounds'
  BY <1>i, <1>u DEF Bounds, FuelInv, CutInv, PanicInv, OpensOnce, Opens
<1>1. CASE CrankEdge
  BY <1>1, <1>u DEF CrankEdge, loop
<1>2. CASE CamEdge
  BY <1>2, <1>u DEF CamEdge, loop, history
<1>3. CASE ReferenceTooth
  <2>1. /\ injected' = {} /\ batched' \in BOOLEAN /\ dfcoActive' \in BOOLEAN
        /\ dfcoActive' => ~batched'
    BY <1>3, ReferenceToothWork
  <2>2. PICK cut \in BOOLEAN : jobs' = ReferenceJobs(cut, batched')
    BY <1>3, ReferenceToothWork
  <2>3. /\ OpensOnce(jobs')
        /\ ~batched' => \A c \in Cylinders : ~Opens(jobs', c)
        /\ Len(FiringOrder) <= TdcAngles => \A i \in DOMAIN jobs' : jobs'[i].do # "panic"
    BY <2>1, <2>2, ReferenceWork
  <2>4. \A c \in Cylinders : fuel'[c] = 0
    BY <1>3 DEF ReferenceTooth
  <2>5. FuelInv'
    BY <2>1, <2>3, <2>4 DEF FuelInv, Bit
  <2>6. CutInv'
    BY <2>1, <2>3, <2>4 DEF CutInv
  <2>7. PanicInv'
    BY <2>3 DEF PanicInv
  <2> QED BY <2>5, <2>6, <2>7 DEF Bounds
<1>4. CASE PlainTooth
  <2> DEFINE serve == ToServe(decoder', injected, dfcoActive)
  <2>1. /\ jobs' = SequentialJobs(serve) /\ injected' = injected \cup serve
        /\ fuel' = fuel /\ batched' = batched /\ dfcoActive' = dfcoActive /\ jobs = <<>>
    BY <1>4 DEF PlainTooth, Sleep, history, Draining, Ready
  <2>2. /\ serve \subseteq Cylinders \ injected
        /\ dfcoActive => serve = {}
        /\ OpensOnce(jobs')
        /\ \A c \in Cylinders : Opens(jobs', c) => c \in serve
        /\ \A i \in DOMAIN jobs' : jobs'[i].do # "panic"
    BY <1>0, <2>1, SequentialWork
  <2>3. \A c \in Cylinders : ~Opens(jobs, c)
    BY <2>1 DEF Opens
  <2> HIDE DEF serve
  <2>4. FuelInv'
    <3>1. ASSUME NEW c \in Cylinders
          PROVE  fuel'[c] + Bit(Opens(jobs', c)) <= Bit(batched') + Bit(c \in injected')
      <4>1. fuel[c] + 0 <= Bit(batched) + Bit(c \in injected) /\ fuel[c] \in Nat
        BY <1>0, <1>i, <2>3, <3>1 DEF FuelInv, Bit
      <4>2. CASE c \in serve
        BY <2>1, <2>2, <3>1, <4>1, <4>2 DEF Bit
      <4>3. CASE c \notin serve
        BY <2>1, <2>2, <3>1, <4>1, <4>3 DEF Bit
      <4> QED BY <4>2, <4>3
    <3> QED BY <2>2, <3>1 DEF FuelInv
  <2>5. CutInv'
    BY <1>i, <2>1, <2>2 DEF CutInv
  <2>6. PanicInv'
    BY <2>2 DEF PanicInv
  <2> QED BY <2>4, <2>5, <2>6 DEF Bounds
<1>5. CASE SlowTooth
  <2>1. jobs = <<>> /\ jobs' = jobs /\ dfcoActive' = dfcoActive
    BY <1>5 DEF SlowTooth, Draining, Ready
  <2>2. CASE decoder'.count # 0
    BY <1>5, <2>1, <2>2, <1>u DEF SlowTooth
  <2>3. CASE decoder'.count = 0
    <3>1. fuel' = [c \in Cylinders |-> 0] /\ injected' = {} /\ batched' = FALSE
      BY <1>5, <2>3 DEF SlowTooth
    <3>2. DOMAIN jobs' = {}
      BY <2>1
    <3> QED BY <3>1, <3>2 DEF Bounds, FuelInv, CutInv, PanicInv, OpensOnce, Opens, Bit
  <2> QED BY <2>2, <2>3
<1>6. CASE BadTooth
  BY <1>6, <1>u DEF BadTooth, history
<1>7. CASE FinishJob
  <2> DEFINE h == Head(jobs)
  <2>1. /\ jobs' = Tail(jobs) /\ injected' = injected /\ batched' = batched /\ dfcoActive' = dfcoActive
        /\ fuel' = IF h.do = "inject" THEN [fuel EXCEPT ![h.cyl] = @ + 1] ELSE fuel
        /\ jobs # <<>>
    BY <1>7 DEF FinishJob, Sleep
  <2>2. h \in Job /\ h = jobs[1] /\ 1 \in DOMAIN jobs
        /\ \A i \in DOMAIN jobs' : i + 1 \in DOMAIN jobs /\ i + 1 # 1 /\ jobs'[i] = jobs[i + 1] /\ i \in Int
    BY <1>0, <2>1
  <2> HIDE DEF h
  <2>3. OpensOnce(jobs')
    BY <1>i, <2>2 DEF FuelInv, OpensOnce
  <2>4. \A c \in Cylinders : Opens(jobs', c) => Opens(jobs, c)
    BY <2>2 DEF Opens
  <2>5. ASSUME NEW c \in Cylinders
        PROVE  fuel'[c] + Bit(Opens(jobs', c)) <= Bit(batched') + Bit(c \in injected')
    <3>1. fuel[c] + Bit(Opens(jobs, c)) <= Bit(batched) + Bit(c \in injected) /\ fuel[c] \in Nat
      BY <1>0, <1>i DEF FuelInv
    <3>2. CASE h.do = "inject" /\ h.cyl = c
      <4>1. Opens(jobs, c)
        BY <2>2, <3>2 DEF Opens
      <4>2. ~Opens(jobs', c)
        BY <1>i, <2>2, <3>2 DEF FuelInv, OpensOnce, Opens
      <4>3. fuel'[c] = fuel[c] + 1
        BY <1>0, <2>1, <3>2
      <4> QED BY <2>1, <3>1, <4>1, <4>2, <4>3 DEF Bit
    <3>3. CASE ~(h.do = "inject" /\ h.cyl = c)
      <4>1. fuel'[c] = fuel[c]
        BY <1>0, <2>1, <3>3
      <4> QED BY <2>1, <2>4, <3>1, <4>1 DEF Bit
    <3> QED BY <3>2, <3>3
  <2>6. CutInv'
    <3> SUFFICES ASSUME dfcoActive', NEW c \in Cylinders
                 PROVE  fuel'[c] = 0 /\ ~Opens(jobs', c)
      BY DEF CutInv
    <3>1. fuel[c] = 0 /\ ~Opens(jobs, c)
      BY <1>i, <2>1 DEF CutInv
    <3>2. ~(h.do = "inject" /\ h.cyl = c)
      BY <2>2, <3>1 DEF Opens
    <3>3. fuel'[c] = fuel[c]
      BY <1>0, <2>1, <3>2
    <3> QED BY <2>4, <3>1, <3>3
  <2>7. PanicInv'
    BY <1>i, <2>2 DEF PanicInv
  <2> QED BY <2>3, <2>5, <2>6, <2>7 DEF Bounds, FuelInv
<1>8. CASE CamThenYield
  BY <1>8, <1>u DEF CamThenYield, history
<1>9. CASE Resume
  BY <1>9, <1>u DEF Resume, history
<1> QED BY <1>1, <1>2, <1>3, <1>4, <1>5, <1>6, <1>7, <1>8, <1>9 DEF Next, LoopStep

LEMMA Invariance == Spec => [](TypeOK /\ Bounds)
<1>1. Init => TypeOK /\ Bounds
  BY TypeInit, BoundsInit
<1>2. TypeOK /\ Bounds /\ [Next]_vars => (TypeOK /\ Bounds)'
  <2>1. ASSUME TypeOK, Bounds, Next
        PROVE  TypeOK' /\ Bounds'
    BY <2>1, TypeStep, BoundsStep
  <2>2. ASSUME TypeOK, Bounds, UNCHANGED vars
        PROVE  TypeOK' /\ Bounds'
    BY <2>2 DEF TypeOK, Bounds, FuelInv, CutInv, PanicInv, OpensOnce, Opens,
                vars, wheel, queues, loop, history
  <2> QED BY <2>1, <2>2
<1> QED BY <1>1, <1>2, PTL DEF Spec

\* Whatever comes out of the queue, the loop's state is of the type the code declares and no queue
\* exceeds its capacity (stm32/src/main.rs, hal-nano/src/trigger.rs).
THEOREM TypeCorrect == Spec => []TypeOK
BY Invariance, PTL

\* No cylinder is injected more than once by each path in a cycle, whatever edges are lost and however
\* many cylinders there are (batch and sequential injection of control_loop).
THEOREM FuelBounded == Spec => []FuelIsBounded
<1>1. TypeOK /\ Bounds => FuelIsBounded
  <2> SUFFICES ASSUME TypeOK, Bounds, NEW c \in Cylinders
               PROVE  fuel[c] <= (IF batched THEN 1 ELSE 0) + (IF c \in injected THEN 1 ELSE 0)
    BY DEF FuelIsBounded
  <2>1. fuel[c] \in Nat /\ fuel[c] + Bit(Opens(jobs, c)) <= Bit(batched) + Bit(c \in injected)
    BY DEF TypeOK, Bounds, FuelInv
  <2> QED BY <2>1 DEF Bit
<1> QED BY <1>1, Invariance, PTL

\* A fuel cut stops the injections of both paths until the next reference tooth (dfco_active).
THEOREM CutIsKept == Spec => []CutLasts
<1>1. Bounds => CutLasts
  BY DEF Bounds, CutInv, CutLasts
<1> QED BY <1>1, Invariance, PTL

\* With at most as many cylinders as angles are kept no lookup of an angle panics.
THEOREM FewCylindersDoNotPanic ==
    ASSUME Len(FiringOrder) <= TdcAngles
    PROVE  Spec => []NoPanic
<1>1. TypeOK /\ Bounds => NoPanic
  <2> SUFFICES ASSUME TypeOK, Bounds, jobs # <<>>
               PROVE  Head(jobs).do # "panic"
    BY DEF NoPanic, Panicked
  <2>1. jobs \in Seq(Job)
    BY DEF TypeOK, Job
  <2>2. 1 \in DOMAIN jobs /\ Head(jobs) = jobs[1]
    BY <2>1
  <2> QED BY <2>2 DEF Bounds, PanicInv
<1> QED BY <1>1, Invariance, PTL

----------------------------------------------------------------------------
(* The queue and the phase.                                                *)

\* Edges that may still come while the coils and injectors of this tooth are driven.
Coming == budget + (IF Len(jobs) > 1 THEN (Len(jobs) - 1) * speed ELSE 0)

\* Injections the sequential path may still give before the next reference tooth.
Unserved == IF Synced(decoder) THEN Len(FiringOrder) - Cardinality(injected) ELSE 0

\* With w edges that wait or are coming, u injections to give and r edges before the next gap edge:
\* the queue does not overflow, and either it is empty before that edge enters it, or it is as short
\* as after a yield.
Fits(w, u, r) ==
    /\ w + u * (speed - 1) <= Peak
    /\ w + u * speed <= r \/ w + u * (speed - 1) <= Waiting + 1

\* The queue holds the edges from position k on, each with the time of its position.
Round(p) == IF p <= NormalEdges THEN p ELSE p - (NormalEdges + 1)
Matched(k) ==
    /\ pos = k + Len(crankQ) \/ pos = k + Len(crankQ) - (NormalEdges + 1)
    /\ \A i \in 1 .. Len(crankQ) : crankQ[i] = EdgeTime(Round(k + i - 1))

\* The decoder has seen the edge before position k last, and counts from the gap edge if in sync.
Before(k) == IF k = 0 THEN EdgeTime(NormalEdges) ELSE Period
Memory(k) ==
    /\ decoder.dur[1] \in {0, Before(k)}
    /\ Synced(decoder) => decoder.count = k /\ ~decoder.first /\ decoder.dur[1] = Before(k)

\* The cam pulse comes in a yield, is looked at within that yield's edges, and not twice in a turn.
Cam(k) ==
    /\ decoder.sync = "FullSync" =>
          /\ decoder.phase = (CamTooth > PresentTeeth \div 2)
          /\ k >= CamTooth
          /\ pos = CamTooth => cammed
    /\ camQ => /\ jobs = <<>> /\ decoder.sync # "FullSync" /\ cammed
               /\ pos = k + Len(crankQ) /\ CamTooth <= pos /\ pos + budget <= CamTooth + speed
    /\ jobs # <<>> => \/ decoder.sync = "FullSync"
                      \/ k = 0 /\ Len(crankQ) + Coming <= Waiting + Busy

Flow(k) ==
    /\ Matched(k) /\ Memory(k)
    /\ Fits(Len(crankQ) + Coming, Unserved, NormalEdges - k)
    /\ CamIsClear => Cam(k)

QueueInv ==
    Roomy /\ speed > 0 =>
        /\ ~lost /\ carry = 0
        /\ Ready => budget = 0
        /\ yielding => jobs = <<>> /\ Len(crankQ) + budget <= speed
        /\ \E k \in 0 .. NormalEdges : Flow(k)

\* At speed 0 no edge ever comes.
StillInv == speed = 0 => crankQ = <<>> /\ ~lost /\ decoder.sync = "Unsynced"

\* Products, stated once: the solver is given linear facts about them.
LEMMA Products ==
    ASSUME NEW s \in Nat \ {0}, NEW u \in Nat
    PROVE  /\ u * s \in Nat /\ u * (s - 1) \in Nat /\ u * s = u * (s - 1) + u
           /\ \A x \in Nat : x <= u => x * (s - 1) <= u * (s - 1) /\ x * s <= u * s
           /\ u > 0 => (u - 1) * (s - 1) = u * (s - 1) - (s - 1) /\ (u - 1) * s = u * s - s
<1>1. \A a, b, c \in Nat : a <= b => a * c <= b * c /\ a * c \in Nat /\ b * c \in Nat
  <2> SUFFICES ASSUME NEW a \in Nat, NEW b \in Nat, NEW c \in Nat, a <= b
               PROVE  a * c <= b * c /\ a * c \in Nat /\ b * c \in Nat
    OBVIOUS
  <2>1. b * c = a * c + (b - a) * c /\ (b - a) * c >= 0
    OBVIOUS
  <2> QED BY <2>1
<1>2. s - 1 \in Nat /\ s \in Nat
  OBVIOUS
<1>3. u * s = u * (s - 1) + u
  OBVIOUS
<1>4. u > 0 => (u - 1) * (s - 1) = u * (s - 1) - (s - 1) /\ (u - 1) * s = u * s - s
  OBVIOUS
<1> QED BY <1>1, <1>2, <1>3, <1>4

\* What a roomy queue has room for, in linear terms.
LEMMA RoomFor ==
    ASSUME TypeOK, Roomy, speed > 0
    PROVE  LET n == Len(FiringOrder)
               a == n * (speed - 1)
           IN /\ speed \in Nat \ {0} /\ n \in Nat \ {0} /\ a \in Nat
              /\ NormalEdges \in Nat \ {0} /\ QueueCap \in Nat
              /\ Waiting = a + speed - 1 /\ Busy = 2 * a + 2 * n
              /\ Peak = Waiting + Busy + a /\ Peak <= QueueCap
              /\ Waiting + Busy + a + n <= NormalEdges
<1>1. speed \in Nat \ {0} /\ Len(FiringOrder) \in Nat \ {0} /\ NormalEdges \in Nat \ {0} /\ QueueCap \in Nat
  BY LoopAssumption, Order DEF TypeOK
<1>2. /\ Len(FiringOrder) * (speed - 1) \in Nat
      /\ Len(FiringOrder) * speed = Len(FiringOrder) * (speed - 1) + Len(FiringOrder)
  BY <1>1, Products
<1>3. (Len(FiringOrder) + 1) * (speed - 1) = Len(FiringOrder) * (speed - 1) + speed - 1
  BY <1>1
<1>4. 2 * Len(FiringOrder) * speed = 2 * (Len(FiringOrder) * speed)
  BY <1>1
<1> QED BY <1>1, <1>2, <1>3, <1>4 DEF Waiting, Busy, Peak, Roomy

LEMMA RoomType ==
    ASSUME TypeOK, Roomy, speed > 0
    PROVE  speed \in Nat \ {0} /\ Waiting \in Nat /\ Busy \in Nat /\ Peak \in Nat /\ NormalEdges \in Nat
<1> DEFINE n == Len(FiringOrder)  a == n * (speed - 1)
<1>1. /\ speed \in Nat \ {0} /\ n \in Nat \ {0} /\ a \in Nat /\ NormalEdges \in Nat
      /\ Waiting = a + speed - 1 /\ Busy = 2 * a + 2 * n /\ Peak = Waiting + Busy + a
  BY RoomFor
<1> HIDE DEF n, a
<1> QED BY <1>1

LEMMA FitsLess ==
    ASSUME TypeOK, Roomy, speed > 0, NEW w \in Nat, NEW u \in Nat, NEW r \in Nat, Fits(w, u, r),
           NEW v \in Nat, NEW x \in Nat, v <= w, x <= u
    PROVE  Fits(v, x, r)
<1> DEFINE p == u * (speed - 1)  q == x * (speed - 1)  P == u * speed  Q == x * speed
<1>1. speed \in Nat \ {0} /\ Waiting \in Int /\ Peak \in Int
  BY RoomType
<1>2. p \in Nat /\ q \in Nat /\ P \in Nat /\ Q \in Nat /\ q <= p /\ Q <= P
  BY <1>1, Products
<1>3. /\ w + p <= Peak /\ (w + P <= r \/ w + p <= Waiting + 1)
  BY DEF Fits
<1> HIDE DEF p, q, P, Q
<1>4. v + q <= Peak /\ (v + Q <= r \/ v + q <= Waiting + 1)
  BY <1>1, <1>2, <1>3
<1> QED BY <1>4 DEF Fits, p, q, P, Q

\* The position after k, and how far the gap edge is from there.
Left(r) == IF r = 0 THEN NormalEdges ELSE r - 1

\* An edge taken from the queue makes room; if it is the gap edge the queue was short already.
LEMMA FitsTooth ==
    ASSUME TypeOK, Roomy, speed > 0, NEW w \in Nat, NEW u \in Nat, NEW r \in Nat, Fits(w, u, r),
           NEW v \in Nat, NEW x \in Nat, v < w, x <= u
    PROVE  Fits(v, x, Left(r))
<1> DEFINE p == u * (speed - 1)  q == x * (speed - 1)  P == u * speed  Q == x * speed
<1>1. speed \in Nat \ {0} /\ Waiting \in Int /\ Peak \in Int /\ NormalEdges \in Nat
  BY RoomType
<1>2. p \in Nat /\ q \in Nat /\ P \in Nat /\ Q \in Nat /\ q <= p /\ Q <= P
  BY <1>1, Products
<1>3. /\ w + p <= Peak /\ (w + P <= r \/ w + p <= Waiting + 1)
  BY DEF Fits
<1> HIDE DEF p, q, P, Q
<1>4. v + q <= Peak /\ (v + Q <= Left(r) \/ v + q <= Waiting + 1)
  BY <1>1, <1>2, <1>3 DEF Left
<1> QED BY <1>4 DEF Fits, p, q, P, Q

\* An injection on the way lets in at most one sleep's edges, and is one less to give.
LEMMA FitsServed ==
    ASSUME TypeOK, Roomy, speed > 0, NEW w \in Nat, NEW u \in Nat, NEW r \in Nat, Fits(w, u, r),
           NEW v \in Nat, NEW x \in Nat, v < w + speed, x < u
    PROVE  Fits(v, x, Left(r))
<1> DEFINE p == u * (speed - 1)  q == x * (speed - 1)  P == u * speed  Q == x * speed
<1>1. speed \in Nat \ {0} /\ Waiting \in Int /\ Peak \in Int /\ NormalEdges \in Nat
  BY RoomType
<1>2. /\ p \in Nat /\ q \in Nat /\ P \in Nat /\ Q \in Nat
      /\ q <= p - (speed - 1) /\ Q <= P - speed
  <2>1. u - 1 \in Nat /\ x <= u - 1 /\ u > 0
    OBVIOUS
  <2>2. p \in Nat /\ P \in Nat /\ (u - 1) * (speed - 1) = p - (speed - 1) /\ (u - 1) * speed = P - speed
    BY <1>1, <2>1, Products
  <2>3. q \in Nat /\ Q \in Nat
    BY <1>1, Products
  <2>4. q <= (u - 1) * (speed - 1) /\ Q <= (u - 1) * speed
    BY <1>1, <2>1, Products
  <2> QED BY <2>2, <2>3, <2>4
<1>3. /\ w + p <= Peak /\ (w + P <= r \/ w + p <= Waiting + 1)
  BY DEF Fits
<1> HIDE DEF p, q, P, Q
<1>5. v + q <= Peak /\ (v + Q <= Left(r) \/ v + q <= Waiting + 1)
  <2>1. v + q <= w + p
    BY <1>1, <1>2
  <2>2. CASE w + P <= r
    <3>1. P >= speed /\ r > 0
      BY <1>1, <1>2, <2>2
    <3> QED BY <1>1, <1>2, <1>3, <2>1, <2>2, <3>1 DEF Left
  <2>3. CASE w + p <= Waiting + 1
    BY <1>1, <1>2, <1>3, <2>1, <2>3
  <2> QED BY <1>3, <2>2, <2>3
<1> QED BY <1>5 DEF Fits, p, q, P, Q

\* At the gap edge there is room for the sleeps of a reference tooth and a turn of injections.
LEMMA FitsReference ==
    ASSUME TypeOK, Roomy, speed > 0, NEW w \in Nat \ {0}, NEW u \in Nat, Fits(w, u, 0),
           NEW v \in Nat, NEW x \in Nat, v < w + Busy, x <= Len(FiringOrder)
    PROVE  Fits(v, x, NormalEdges) /\ v <= Waiting + Busy
<1> DEFINE n == Len(FiringOrder)  a == n * (speed - 1)  b == n * speed
           p == u * (speed - 1)  q == x * (speed - 1)  P == u * speed  Q == x * speed
<1>1. /\ speed \in Nat \ {0} /\ n \in Nat \ {0} /\ a \in Nat /\ NormalEdges \in Nat
      /\ Waiting = a + speed - 1 /\ Busy = 2 * a + 2 * n
      /\ Peak = Waiting + Busy + a /\ Waiting + Busy + a + n <= NormalEdges
  BY RoomFor
<1>2. p \in Nat /\ P \in Nat
  BY <1>1, Products
<1>3. q \in Nat /\ Q \in Nat /\ q <= a /\ Q <= b /\ b = a + n
  BY <1>1, Products
<1>4. w + P <= 0 \/ w + p <= Waiting + 1
  BY DEF Fits
<1> HIDE DEF n, a, b, p, q, P, Q
<1>5. w <= Waiting + 1
  BY <1>1, <1>2, <1>4
<1>6. v + q <= Peak /\ v + Q <= NormalEdges /\ v <= Waiting + Busy
  BY <1>1, <1>3, <1>5
<1> QED BY <1>6 DEF Fits, q, Q

\* After a yield the queue is short, whatever is left to inject.
LEMMA FitsYield ==
    ASSUME TypeOK, Roomy, speed > 0, NEW w \in Nat, w <= speed, NEW u \in Nat, u <= Len(FiringOrder),
           NEW r \in Nat
    PROVE  Fits(w, u, r)
<1> DEFINE n == Len(FiringOrder)  a == n * (speed - 1)  p == u * (speed - 1)
<1>1. /\ speed \in Nat \ {0} /\ n \in Nat \ {0} /\ a \in Nat
      /\ Waiting = a + speed - 1 /\ Busy = 2 * a + 2 * n /\ Peak = Waiting + Busy + a
  BY RoomFor
<1>2. p \in Nat /\ p <= a
  BY <1>1, Products
<1> HIDE DEF n, a, p
<1>3. w + p <= Peak /\ w + p <= Waiting + 1
  BY <1>1, <1>2
<1> QED BY <1>3 DEF Fits, p

\* What waits is less than a turn, and fits the queue.
LEMMA FitsBounds ==
    ASSUME TypeOK, Roomy, speed > 0, NEW w \in Nat, NEW u \in Nat, NEW r \in 0 .. NormalEdges, Fits(w, u, r)
    PROVE  /\ w <= QueueCap /\ w <= NormalEdges
           /\ w <= r \/ w <= Waiting + 1
<1> DEFINE n == Len(FiringOrder)  a == n * (speed - 1)  p == u * (speed - 1)  P == u * speed
<1>1. /\ speed \in Nat \ {0} /\ n \in Nat \ {0} /\ a \in Nat /\ NormalEdges \in Nat /\ QueueCap \in Nat
      /\ Waiting = a + speed - 1 /\ Busy = 2 * a + 2 * n
      /\ Peak = Waiting + Busy + a /\ Waiting + Busy + a + n <= NormalEdges /\ Peak <= QueueCap
  BY RoomFor
<1>2. p \in Nat /\ P \in Nat
  BY <1>1, Products
<1>3. w + p <= Peak /\ (w + P <= r \/ w + p <= Waiting + 1)
  BY DEF Fits
<1> HIDE DEF n, a, p, P
<1> QED BY <1>1, <1>2, <1>3

LEMMA SequentialWorkLength ==
    ASSUME NEW cs
    PROVE  Len(SequentialJobs(cs)) = IF cs = {} THEN 0 ELSE 1
BY DEF SequentialJobs

\* Each sleep that is left lets in at most as many edges as the speed says.
LEMMA ComingType ==
    ASSUME TypeOK
    PROVE  Coming \in Nat /\ Coming >= budget /\ (jobs = <<>> => Coming = budget)
<1>1. speed \in Nat /\ budget \in Nat /\ jobs \in Seq(Job) /\ Len(jobs) \in Nat
  BY LoopAssumption DEF TypeOK, Job
<1>2. Len(jobs) > 1 => (Len(jobs) - 1) * speed \in Nat
  BY <1>1
<1> QED BY <1>1, <1>2 DEF Coming

LEMMA SleepComing ==
    ASSUME TypeOK, NEW work \in Seq(Job), Sleep(work), speed' = speed
    PROVE  Coming' = Len(work) * speed
<1>1. speed \in Nat /\ Len(work) \in Nat
  BY LoopAssumption DEF TypeOK
<1>2. jobs' = work /\ budget' = IF work = <<>> THEN 0 ELSE speed
  BY DEF Sleep
<1>3. CASE Len(work) = 0
  BY <1>1, <1>2, <1>3 DEF Coming
<1>4. CASE Len(work) = 1
  <2>1. work # <<>> /\ 1 * speed = speed
    BY <1>1, <1>4
  <2> QED BY <1>1, <1>2, <1>4, <2>1 DEF Coming
<1>5. CASE Len(work) > 1
  <2>1. speed + (Len(work) - 1) * speed = Len(work) * speed
    BY <1>1
  <2>2. work # <<>> /\ speed' \in Nat
    BY <1>1, <1>5
  <2>3. Coming' = budget' + (IF Len(jobs') > 1 THEN (Len(jobs') - 1) * speed' ELSE 0)
    BY DEF Coming
  <2>4. Len(jobs') > 1 /\ (Len(jobs') - 1) * speed' = (Len(work) - 1) * speed /\ budget' = speed
    BY <1>2, <1>5, <2>2
  <2>5. Coming' = speed + (Len(work) - 1) * speed
    BY <2>3, <2>4
  <2> QED BY <2>1, <2>5
<1>6. Len(work) = 0 \/ Len(work) = 1 \/ Len(work) > 1
  <2>1. \A n \in Nat : n = 0 \/ n = 1 \/ n > 1
    OBVIOUS
  <2> QED BY <1>1, <2>1, Zenon
<1> QED BY <1>3, <1>4, <1>5, <1>6, Zenon

LEMMA CylinderCount ==
    ASSUME NEW S \in SUBSET Cylinders
    PROVE  IsFiniteSet(S) /\ Cardinality(S) \in 0 .. Len(FiringOrder)
<1>1. FiringOrder \in Surjection(1 .. Len(FiringOrder), Cylinders)
  BY Order, LoopAssumption DEF Surjection, Cylinders
<1>2. Len(FiringOrder) \in Nat /\ IsFiniteSet(1 .. Len(FiringOrder))
      /\ Cardinality(1 .. Len(FiringOrder)) = Len(FiringOrder)
  BY Order, FS_Interval
<1>3. IsFiniteSet(Cylinders) /\ Cardinality(Cylinders) <= Len(FiringOrder)
  BY <1>1, <1>2, FS_Surjection
<1>4. IsFiniteSet(S) /\ Cardinality(S) <= Cardinality(Cylinders)
  BY <1>3, FS_Subset
<1>5. Cardinality(S) \in Nat /\ Cardinality(Cylinders) \in Nat
  BY <1>3, <1>4, FS_CardinalityType
<1> QED BY <1>2, <1>3, <1>4, <1>5

LEMMA UnservedType ==
    ASSUME TypeOK
    PROVE  Unserved \in 0 .. Len(FiringOrder)
BY CylinderCount, Order DEF Unserved, TypeOK

----------------------------------------------------------------------------
(* One tooth of the wheel at constant speed.                               *)

\* Only the gap edge looks like a gap, and it does after a tooth.
LEMMA GapsAreGaps ==
    ASSUME NEW k \in 0 .. NormalEdges, NEW t \in {0, EdgeTime(k)}, NEW b \in {0, Before(k)}
    PROVE  /\ IsGap(t, b) => k = NormalEdges
           /\ k = NormalEdges /\ t = EdgeTime(k) /\ b = Before(k) => IsGap(t, b)
<1> DEFINE g == ExpectedGapRatio  p == Period  gp == g * p
<1>1. g \in Nat /\ g >= 2 /\ p \in Nat \ {0} /\ NormalEdges \in Nat \ {0}
  BY WheelAssumption, LoopAssumption DEF ExpectedGapRatio
<1>2. gp \in Nat /\ gp >= 2 * p
  <2>1. gp = 2 * p + (g - 2) * p /\ (g - 2) * p >= 0
    BY <1>1
  <2> QED BY <1>1, <2>1
<1>3. (2 * g - 1) * p = 2 * gp - p /\ (2 * g + 1) * p = 2 * gp + p
  BY <1>1
<1>4. (2 * g - 1) * gp >= 3 * gp
  <2>1. (2 * g - 1) * gp = 3 * gp + (2 * g - 4) * gp /\ (2 * g - 4) * gp >= 0
    BY <1>1, <1>2
  <2> QED BY <1>1, <1>2, <2>1
<1>5. EdgeTime(k) = IF k = NormalEdges THEN gp ELSE p
  BY DEF EdgeTime
<1>6. Before(k) = IF k = 0 THEN gp ELSE p
  BY DEF Before, EdgeTime
<1>7. (2 * g - 1) * p \in Int /\ (2 * g - 1) * gp \in Int /\ (2 * g + 1) * p \in Int
  BY <1>1, <1>2
<1>8. IsGap(t, b) => b # 0 /\ 2 * t >= (2 * g - 1) * b
  BY DEF IsGap
<1>9. /\ 2 * gp >= (2 * g - 1) * p /\ 2 * gp <= (2 * g + 1) * p
      /\ 2 * gp # (2 * g - 1) * p /\ 2 * gp # (2 * g + 1) * p
  BY <1>1, <1>2, <1>3
<1>10. k = NormalEdges /\ t = EdgeTime(k) /\ b = Before(k) => IsGap(t, b)
  <2> SUFFICES ASSUME k = NormalEdges, t = EdgeTime(k), b = Before(k)
               PROVE  IsGap(t, b)
    OBVIOUS
  <2>1. t = gp /\ b = p
    BY <1>1, <1>5, <1>6
  <2>2. p # 0
    BY <1>1
  <2> QED BY <1>9, <2>1, <2>2 DEF IsGap
<1>11. ASSUME k # NormalEdges PROVE ~IsGap(t, b)
  <2>1. t = 0 \/ t = p
    BY <1>5, <1>11
  <2>2. b = 0 \/ b = p \/ b = gp
    BY <1>6
  <2>3. ~(2 * t >= (2 * g - 1) * p)
    <3> HIDE DEF gp, p, g
    <3> QED BY <1>1, <1>2, <1>3, <2>1
  <2>4. ~(2 * t >= (2 * g - 1) * gp)
    <3> DEFINE h == (2 * g - 1) * gp
    <3>1. h >= 3 * gp /\ h \in Int
      BY <1>4, <1>7
    <3> HIDE DEF gp, p, g, h
    <3>2. ~(2 * t >= h)
      BY <1>1, <1>2, <2>1, <3>1
    <3> QED BY <3>2 DEF h
  <2> QED BY <1>8, <2>2, <2>3, <2>4
<1> QED BY <1>10, <1>11

LEMMA ZeroIsNoGap ==
    ASSUME NEW b \in Nat
    PROVE  ~IsGap(0, b)
<1>1. ExpectedGapRatio \in Nat /\ ExpectedGapRatio >= 2
  BY WheelAssumption DEF ExpectedGapRatio
<1>2. \A g, c \in Nat : g >= 2 /\ c # 0 => ~(2 * 0 >= (2 * g - 1) * c)
  <2> SUFFICES ASSUME NEW g \in Nat, NEW c \in Nat, g >= 2, c # 0
               PROVE  ~(2 * 0 >= (2 * g - 1) * c)
    OBVIOUS
  <2>1. (2 * g - 1) * c = c + 2 * ((g - 1) * c) /\ (g - 1) * c >= 0 /\ (g - 1) * c \in Int
    OBVIOUS
  <2> QED BY <2>1
<1> QED BY <1>1, <1>2 DEF IsGap

\* What the edge at position k does to a decoder that remembers the one before it.
LEMMA ToothOutcome ==
    ASSUME TypeOK, Draining, NEW k \in 0 .. NormalEdges, Matched(k), Memory(k)
    PROVE  LET d == Result.dec
           IN /\ Result.err = None =>
                    /\ d.dur[1] \in {0, Before(Turn(k))}
                    /\ Synced(d) => d.count = Turn(k) /\ ~d.first /\ d.dur[1] = Before(Turn(k))
                    /\ d.count = 0 => k = NormalEdges /\ d.sync = "CrankSynced"
                    /\ d.count # 0 => d.sync = decoder.sync /\ d.phase = decoder.phase
                    /\ d.count # 0 /\ Synced(d) => k < NormalEdges
<1> DEFINE e == Head(crankQ)
           t == IF decoder.first THEN 0 ELSE e
           d == Result.dec
<1>1. /\ decoder \in Decoder /\ crankQ \in Seq(Nat) /\ crankQ # <<>>
      /\ NormalEdges \in Nat \ {0} /\ decoder.count \in Nat
  BY LoopAssumption DEF TypeOK, Draining, Decoder
<1>2. e = EdgeTime(k) /\ e \in Nat
  <2>1. 1 \in 1 .. Len(crankQ) /\ e = crankQ[1] /\ e \in Nat
    BY <1>1
  <2>2. Round(k + 1 - 1) = k
    BY DEF Round
  <2> QED BY <2>1, <2>2 DEF Matched
<1>3. Result = ProcessCrank(decoder, e)
  BY DEF Result
<1>4. None \notin TriggerErrors
  BY DecoderAssumption DEF TriggerErrors
<1>5. CASE TimedOut(decoder, e)
  BY <1>3, <1>4, <1>5 DEF ProcessCrank, Fail, TriggerErrors
<1>6. CASE ~TimedOut(decoder, e)
  <2>1. /\ IsGap(t, decoder.dur[1]) /\ Synced(decoder) /\ decoder.count # PresentTeeth => Result.err # None
        /\ IsGap(t, decoder.dur[1]) /\ ~(Synced(decoder) /\ decoder.count # PresentTeeth) =>
              /\ Result.err = None /\ d.sync = "CrankSynced" /\ d.count = 0
              /\ ~d.first /\ d.dur[1] = t /\ d.phase = decoder.phase
        /\ ~IsGap(t, decoder.dur[1]) /\ Synced(decoder) /\ decoder.count >= PresentTeeth => Result.err # None
        /\ ~IsGap(t, decoder.dur[1]) /\ ~(Synced(decoder) /\ decoder.count >= PresentTeeth) =>
              /\ Result.err = None /\ d.sync = decoder.sync /\ d.count = decoder.count + 1
              /\ ~d.first /\ d.dur[1] = t /\ d.phase = decoder.phase
    BY <1>1, <1>2, <1>3, <1>6, EdgeOutcome
  <2>2. t \in {0, EdgeTime(k)} /\ (~decoder.first => t = EdgeTime(k))
    BY <1>2
  <2>3. /\ IsGap(t, decoder.dur[1]) => k = NormalEdges
        /\ k = NormalEdges /\ t = EdgeTime(k) /\ decoder.dur[1] = Before(k) => IsGap(t, decoder.dur[1])
    BY <2>2, GapsAreGaps DEF Memory
  <2>4. Before(Turn(k)) = EdgeTime(k) /\ (k # NormalEdges => Turn(k) = k + 1) /\ (k = NormalEdges => Turn(k) = 0)
    BY <1>1 DEF Before, Turn, EdgeTime
  <2>5. Synced(decoder) => decoder.count = k /\ ~decoder.first /\ decoder.dur[1] = Before(k)
    BY DEF Memory
  <2>6. \A x : Synced([sync |-> x]) <=> x # "Unsynced"
    BY DEF Synced
  <2>7. (Synced(d) <=> d.sync # "Unsynced") /\ (Synced(decoder) <=> decoder.sync # "Unsynced")
    BY DEF Synced
  <2>8. ASSUME Result.err = None, IsGap(t, decoder.dur[1])
        PROVE  /\ d.dur[1] \in {0, Before(Turn(k))}
               /\ d.count = Turn(k) /\ ~d.first /\ d.dur[1] = Before(Turn(k))
               /\ k = NormalEdges /\ d.sync = "CrankSynced" /\ d.count = 0
    <3>1. /\ d.sync = "CrankSynced" /\ d.count = 0 /\ ~d.first /\ d.dur[1] = t /\ k = NormalEdges
      BY <2>1, <2>3, <2>8
    <3>2. t # 0
      <4>1. t = 0 => ~IsGap(t, decoder.dur[1])
        <5>1. decoder.dur[1] \in Nat
          BY <1>1 DEF Decoder
        <5> QED BY <5>1, ZeroIsNoGap
      <4> QED BY <4>1, <2>8
    <3> QED BY <2>2, <2>4, <3>1, <3>2
  <2>9. ASSUME Result.err = None, ~IsGap(t, decoder.dur[1])
        PROVE  /\ d.dur[1] \in {0, Before(Turn(k))}
               /\ d.count # 0 /\ d.sync = decoder.sync /\ d.phase = decoder.phase
               /\ Synced(d) => /\ d.count = Turn(k) /\ ~d.first /\ d.dur[1] = Before(Turn(k))
                               /\ k < NormalEdges
    <3>1. /\ d.sync = decoder.sync /\ d.count = decoder.count + 1 /\ ~d.first /\ d.dur[1] = t
          /\ d.phase = decoder.phase
      BY <2>1, <2>9
    <3>2. Synced(d) => k # NormalEdges
      BY <2>2, <2>3, <2>5, <2>7, <2>9, <3>1
    <3>3. d.dur[1] \in {0, Before(Turn(k))}
      BY <2>2, <2>4, <3>1
    <3>4. d.count # 0
      BY <1>1, <3>1
    <3>5. Synced(d) => /\ d.count = Turn(k) /\ d.dur[1] = Before(Turn(k)) /\ k < NormalEdges
      BY <1>1, <2>2, <2>4, <2>5, <2>7, <3>1, <3>2
    <3> QED BY <3>1, <3>3, <3>4, <3>5
  <2> HIDE DEF t, d, e
  <2> QED BY <2>8, <2>9 DEF d
<1> QED BY <1>5, <1>6

\* The queue without its first edge starts at the position after it.
LEMMA MatchedTail ==
    ASSUME TypeOK, crankQ # <<>>, NEW k \in 0 .. NormalEdges, Matched(k),
           crankQ' = Tail(crankQ), pos' = pos, Len(crankQ) <= NormalEdges
    PROVE  Matched(Turn(k))' /\ Len(crankQ') = Len(crankQ) - 1 /\ Turn(k) \in 0 .. NormalEdges
<1>1. NormalEdges \in Nat \ {0} /\ crankQ \in Seq(Nat) /\ pos \in 0 .. NormalEdges /\ Len(crankQ) \in Nat \ {0}
  BY LoopAssumption DEF TypeOK
<1>2. Len(crankQ') = Len(crankQ) - 1 /\ \A i \in 1 .. Len(crankQ') : i + 1 \in 1 .. Len(crankQ) /\ crankQ'[i] = crankQ[i + 1]
  BY <1>1
<1>3. Turn(k) = (IF k = NormalEdges THEN 0 ELSE k + 1) /\ Turn(k) \in 0 .. NormalEdges
  BY <1>1 DEF Turn
<1>4. \A i \in 1 .. Len(crankQ') : Round(Turn(k) + i - 1) = Round(k + (i + 1) - 1)
  BY <1>1, <1>2, <1>3 DEF Round
<1>5. \A i \in 1 .. Len(crankQ') : crankQ'[i] = EdgeTime(Round(Turn(k) + i - 1))
  BY <1>2, <1>4 DEF Matched
<1>6. pos = Turn(k) + Len(crankQ') \/ pos = Turn(k) + Len(crankQ') - (NormalEdges + 1)
  <2>1. pos = k + Len(crankQ) \/ pos = k + Len(crankQ) - (NormalEdges + 1)
    BY DEF Matched
  <2>2. Len(crankQ') = Len(crankQ) - 1
    BY <1>2
  <2> DEFINE l == Len(crankQ)  m == Len(crankQ')
  <2>3. l \in Nat \ {0} /\ m = l - 1 /\ k \in 0 .. NormalEdges /\ (pos = k + l \/ pos = k + l - (NormalEdges + 1))
    BY <1>1, <2>1, <2>2
  <2> HIDE DEF l, m
  <2>4. CASE k = NormalEdges
    <3>1. pos = 0 + m
      BY <1>1, <2>3, <2>4
    <3> QED BY <1>3, <2>4, <3>1 DEF m
  <2>5. CASE k # NormalEdges
    <3>1. pos = k + 1 + m \/ pos = k + 1 + m - (NormalEdges + 1)
      BY <1>1, <2>3, <2>5
    <3> QED BY <1>3, <2>5, <3>1 DEF m
  <2> QED BY <2>4, <2>5
<1> QED BY <1>2, <1>3, <1>5, <1>6 DEF Matched

----------------------------------------------------------------------------
(* Each step keeps the queue within bounds.                                *)

\* What is to be shown of a step: the flow goes on from some position.
LEMMA FlowNext ==
    ASSUME speed' = speed, ~lost', carry' = 0, Ready' => budget' = 0,
           yielding' => jobs' = <<>> /\ Len(crankQ') + budget' <= speed,
           NEW j \in 0 .. NormalEdges, Matched(j)', Memory(j)',
           Fits(Len(crankQ') + Coming', Unserved', NormalEdges - j),
           CamIsClear => Cam(j)'
    PROVE  QueueInv'
<1>1. (CamIsClear <=> CamIsClear') /\ Waiting' = Waiting /\ Peak' = Peak
  BY DEF CamIsClear, Waiting, Busy, Peak
<1>2. Fits(Len(crankQ) + Coming, Unserved, NormalEdges - j)'
  BY <1>1 DEF Fits
<1>3. Flow(j)'
  BY <1>1, <1>2 DEF Flow
<1> QED BY <1>3 DEF QueueInv

\* What holds before a step.
LEMMA FlowNow ==
    ASSUME TypeOK, QueueInv, Roomy, speed > 0
    PROVE  /\ ~lost /\ carry = 0
           /\ Ready => budget = 0
           /\ yielding => jobs = <<>> /\ Len(crankQ) + budget <= speed
           /\ \E k \in 0 .. NormalEdges :
                 /\ Matched(k) /\ Memory(k)
                 /\ Fits(Len(crankQ) + Coming, Unserved, NormalEdges - k)
                 /\ CamIsClear => Cam(k)
                 /\ Len(crankQ) + Coming <= QueueCap /\ Len(crankQ) + Coming <= NormalEdges
                 /\ Len(crankQ) + Coming <= NormalEdges - k \/ Len(crankQ) + Coming <= Waiting + 1
<1>1. PICK k \in 0 .. NormalEdges : Flow(k)
  BY DEF QueueInv
<1>2. Len(crankQ) + Coming \in Nat /\ Unserved \in Nat /\ NormalEdges - k \in 0 .. NormalEdges
  <2>1. Len(crankQ) \in Nat /\ Coming \in Nat
    BY ComingType DEF TypeOK
  <2>2. Unserved \in 0 .. Len(FiringOrder) /\ Len(FiringOrder) \in Nat
    BY UnservedType, Order
  <2>3. NormalEdges \in Nat
    BY LoopAssumption
  <2> QED BY <2>1, <2>2, <2>3
<1>3. Fits(Len(crankQ) + Coming, Unserved, NormalEdges - k)
  BY <1>1 DEF Flow
<1>4. /\ Len(crankQ) + Coming <= QueueCap /\ Len(crankQ) + Coming <= NormalEdges
      /\ Len(crankQ) + Coming <= NormalEdges - k \/ Len(crankQ) + Coming <= Waiting + 1
  BY <1>2, <1>3, FitsBounds
<1> QED BY <1>1, <1>4 DEF QueueInv, Flow

LEMMA CrankEdgeFlow ==
    ASSUME TypeOK, QueueInv, Roomy, speed > 0, CrankEdge
    PROVE  QueueInv'
<1> DEFINE n == Len(crankQ)
<1>1. /\ ~lost /\ carry = 0 /\ (yielding => jobs = <<>> /\ n + budget <= speed)
  BY FlowNow
<1>2. PICK k \in 0 .. NormalEdges :
         /\ Matched(k) /\ Memory(k) /\ Fits(n + Coming, Unserved, NormalEdges - k)
         /\ CamIsClear => Cam(k)
         /\ n + Coming <= QueueCap /\ n + Coming <= NormalEdges
         /\ n + Coming <= NormalEdges - k \/ n + Coming <= Waiting + 1
  BY FlowNow
<1>3. /\ n \in Nat /\ crankQ \in Seq(Nat) /\ NormalEdges \in Nat \ {0} /\ pos \in 0 .. NormalEdges
      /\ budget \in Nat /\ speed \in Nat \ {0} /\ QueueCap \in Nat /\ k \in Nat /\ EdgeTime(pos) \in Nat
  <2>1. /\ n \in Nat /\ crankQ \in Seq(Nat) /\ NormalEdges \in Nat \ {0} /\ pos \in 0 .. NormalEdges
        /\ QueueCap \in Nat /\ k \in Nat /\ speed \in Nat \ {0}
    BY LoopAssumption, RoomType DEF TypeOK
  <2>2. budget \in Nat
    BY <2>1 DEF TypeOK
  <2>3. EdgeTime(pos) \in Nat
    BY <2>1, EdgeTimes
  <2> QED BY <2>1, <2>2, <2>3
<1>4. Coming \in Nat /\ Coming >= budget /\ Waiting \in Nat /\ Busy \in Nat
  BY ComingType, RoomType
<1>5. /\ Asleep /\ budget > 0 /\ (pos = CamTooth => cammed)
      /\ pos' = Turn(pos) /\ cammed' = (cammed /\ pos # NormalEdges) /\ budget' = budget - 1
      /\ speed' = speed /\ camQ' = camQ /\ decoder' = decoder /\ injected' = injected
      /\ jobs' = jobs /\ yielding' = yielding
  BY DEF CrankEdge, loop
<1>6. n < QueueCap /\ n < NormalEdges
  BY <1>2, <1>3, <1>4, <1>5
<1>7. crankQ' = Append(crankQ, EdgeTime(pos)) /\ carry' = 0 /\ ~lost'
  <2>1. carry + EdgeTime(pos) = EdgeTime(pos)
    BY <1>1, <1>3
  <2> QED BY <1>1, <1>6, <2>1 DEF CrankEdge
<1>8. /\ crankQ' \in Seq(Nat) /\ Len(crankQ') = n + 1 /\ crankQ'[n + 1] = EdgeTime(pos)
      /\ \A i \in 1 .. n : crankQ'[i] = crankQ[i]
  BY <1>3, <1>7
<1>9. Coming' = Coming - 1
  <2>1. (IF Len(jobs') > 1 THEN (Len(jobs') - 1) * speed' ELSE 0) = (IF Len(jobs) > 1 THEN (Len(jobs) - 1) * speed ELSE 0)
    BY <1>5
  <2>2. (IF Len(jobs) > 1 THEN (Len(jobs) - 1) * speed ELSE 0) = Coming - budget
    <3>1. Len(jobs) \in Nat
      BY DEF TypeOK, Job
    <3>2. Len(jobs) > 1 => (Len(jobs) - 1) * speed \in Nat
      BY <1>3, <3>1
    <3> QED BY <1>3, <3>2 DEF Coming
  <2> QED BY <1>3, <1>4, <1>5, <2>1, <2>2 DEF Coming
<1>10. Unserved' = Unserved /\ Len(crankQ') + Coming' = n + Coming
  BY <1>3, <1>4, <1>5, <1>8, <1>9 DEF Unserved
<1>11. pos = k + n \/ pos = k + n - (NormalEdges + 1)
  BY <1>2 DEF Matched
<1>t. Turn(pos) = IF pos = NormalEdges THEN 0 ELSE pos + 1
  BY DEF Turn
<1>12. pos' = k + (n + 1) \/ pos' = k + (n + 1) - (NormalEdges + 1)
  BY <1>3, <1>5, <1>6, <1>11, <1>t
<1>13. Matched(k)'
  <2>1. pos = Round(k + (n + 1) - 1)
    BY <1>3, <1>6, <1>11 DEF Round
  <2>2. \A i \in 1 .. n + 1 : i \in 1 .. n \/ i = n + 1
    BY <1>3
  <2>3. \A i \in 1 .. Len(crankQ') : crankQ'[i] = EdgeTime(Round(k + i - 1))
    BY <1>2, <1>8, <2>1, <2>2 DEF Matched
  <2> QED BY <1>8, <1>12, <2>3 DEF Matched
<1>14. Memory(k)'
  BY <1>2, <1>5 DEF Memory
<1>15. ~Ready'
  BY <1>5 DEF Ready, Asleep
<1>16. yielding' => jobs' = <<>> /\ Len(crankQ') + budget' <= speed
  BY <1>1, <1>3, <1>5, <1>8
<1>17. ASSUME CamIsClear PROVE Cam(k)'
  <2>1. /\ Waiting + Busy < CamTooth /\ CamTooth + speed <= NormalEdges /\ CamTooth \in 0 .. NormalEdges
    BY <1>17, LoopAssumption DEF CamIsClear
  <2>2. Cam(k)
    BY <1>2, <1>17
  <2>3. ASSUME decoder'.sync = "FullSync"
        PROVE  /\ decoder'.phase = (CamTooth > PresentTeeth \div 2)
               /\ k >= CamTooth
               /\ pos' = CamTooth => cammed'
    <3>1. decoder.phase = (CamTooth > PresentTeeth \div 2) /\ k >= CamTooth
      BY <1>5, <2>2, <2>3 DEF Cam
    <3>2. pos' # CamTooth
      <4>1. CASE pos' = k + (n + 1)
        BY <1>3, <2>1, <3>1, <4>1
      <4>2. CASE pos' = k + (n + 1) - (NormalEdges + 1)
        <5>1. n + 1 <= n + Coming /\ pos' <= n /\ k + n >= NormalEdges
          BY <1>3, <1>4, <1>5, <1>t, <4>2
        <5>2. n + Coming <= Waiting + 1
          BY <1>2, <1>3, <1>4, <5>1
        <5> QED BY <1>3, <1>4, <2>1, <4>2, <5>1, <5>2
      <4> QED BY <1>12, <4>1, <4>2
    <3> QED BY <1>5, <3>1, <3>2
  <2>4. ASSUME camQ'
        PROVE  /\ jobs' = <<>> /\ decoder'.sync # "FullSync" /\ cammed'
               /\ pos' = k + Len(crankQ') /\ CamTooth <= pos' /\ pos' + budget' <= CamTooth + speed'
    <3>1. /\ jobs = <<>> /\ decoder.sync # "FullSync" /\ cammed
          /\ pos = k + n /\ CamTooth <= pos /\ pos + budget <= CamTooth + speed
      BY <1>5, <2>2, <2>4 DEF Cam
    <3>2. pos # NormalEdges /\ pos' = pos + 1
      BY <1>3, <1>5, <1>t, <2>1, <3>1
    <3>3. cammed'
      BY <1>5, <3>1, <3>2
    <3> QED BY <1>3, <1>5, <1>8, <2>1, <3>1, <3>2, <3>3
  <2>5. jobs' # <<>> => \/ decoder'.sync = "FullSync"
                        \/ k = 0 /\ Len(crankQ') + Coming' <= Waiting' + Busy'
    BY <1>5, <1>10, <2>2 DEF Cam, Waiting, Busy
  <2> QED BY <2>3, <2>4, <2>5 DEF Cam
<1> QED BY <1>2, <1>5, <1>7, <1>10, <1>13, <1>14, <1>15, <1>16, <1>17, FlowNext

LEMMA CamEdgeFlow ==
    ASSUME TypeOK, QueueInv, Roomy, speed > 0, CamEdge
    PROVE  QueueInv'
<1> DEFINE n == Len(crankQ)
<1>1. /\ ~lost /\ carry = 0 /\ (Ready => budget = 0) /\ (yielding => jobs = <<>> /\ n + budget <= speed)
  BY FlowNow
<1>2. PICK k \in 0 .. NormalEdges :
         /\ Matched(k) /\ Memory(k) /\ Fits(n + Coming, Unserved, NormalEdges - k)
         /\ CamIsClear => Cam(k)
         /\ n + Coming <= NormalEdges
  BY FlowNow
<1>3. /\ n \in Nat /\ NormalEdges \in Nat \ {0} /\ pos \in 0 .. NormalEdges
      /\ budget \in 0 .. speed /\ speed \in Nat \ {0} /\ k \in Nat
  BY LoopAssumption, RoomType DEF TypeOK
<1>4. Coming \in Nat /\ Waiting \in Nat /\ Busy \in Nat /\ speed <= Waiting + 1
  <2>1. Coming \in Nat /\ Waiting \in Nat /\ Busy \in Nat
    BY ComingType, RoomType
  <2> DEFINE a == Len(FiringOrder) * (speed - 1)
  <2>2. Waiting = a + speed - 1 /\ a \in Nat
    BY RoomFor
  <2> HIDE DEF a
  <2> QED BY <1>3, <2>1, <2>2
<1>5. /\ Asleep /\ budget > 0 /\ pos = CamTooth /\ ~cammed /\ cammed' = TRUE /\ camQ' = TRUE
      /\ UNCHANGED <<speed, pos, carry, crankQ, budget, decoder, injected, jobs, yielding, lost>>
  BY DEF CamEdge, loop, history
<1>6. Coming' = Coming /\ Unserved' = Unserved
  BY <1>5 DEF Coming, Unserved
<1>7. Matched(k)' /\ Memory(k)' /\ (Ready' <=> Ready)
  BY <1>2, <1>5 DEF Matched, Memory, Ready
<1>8. ASSUME CamIsClear PROVE Cam(k)'
  <2>1. /\ Waiting + Busy < CamTooth /\ CamTooth + speed <= NormalEdges /\ CamTooth \in 0 .. NormalEdges
    BY <1>8, LoopAssumption DEF CamIsClear
  <2>2. Cam(k)
    BY <1>2, <1>8
  <2>3. decoder.sync # "FullSync"
    BY <1>5, <2>2 DEF Cam
  <2>4. pos = k + n \/ pos = k + n - (NormalEdges + 1)
    BY <1>2 DEF Matched
  <2>5. jobs = <<>>
    <3> SUFFICES ASSUME jobs # <<>> PROVE FALSE
      OBVIOUS
    <3>1. k = 0 /\ n + Coming <= Waiting + Busy
      BY <2>2, <2>3 DEF Cam
    <3> QED BY <1>2, <1>3, <1>4, <1>5, <2>1, <2>4, <3>1
  <2>6. n + budget <= speed
    BY <1>1, <1>5, <2>5 DEF Asleep, Ready
  <2>7. pos = k + n
    BY <1>3, <1>4, <1>5, <2>1, <2>4, <2>6
  <2> QED BY <1>3, <1>5, <2>3, <2>5, <2>7 DEF Cam
<1> QED BY <1>1, <1>2, <1>5, <1>6, <1>7, <1>8, FlowNext

\* What every tooth has in common: one edge less, and nothing on its way.
LEMMA DrainNow ==
    ASSUME TypeOK, QueueInv, Roomy, speed > 0, Draining, crankQ' = Tail(crankQ), pos' = pos
    PROVE  /\ ~lost /\ carry = 0 /\ jobs = <<>> /\ ~yielding /\ budget = 0
           /\ Len(crankQ) \in Nat \ {0} /\ Len(crankQ') = Len(crankQ) - 1
           /\ \E k \in 0 .. NormalEdges :
                 /\ Matched(k) /\ Memory(k) /\ Fits(Len(crankQ), Unserved, NormalEdges - k)
                 /\ CamIsClear => Cam(k)
                 /\ Matched(Turn(k))' /\ Turn(k) \in 0 .. NormalEdges
                 /\ NormalEdges - Turn(k) = Left(NormalEdges - k)
                 /\ (k = NormalEdges => Turn(k) = 0) /\ (k < NormalEdges => Turn(k) = k + 1)
<1>1. /\ ~lost /\ carry = 0 /\ (Ready => budget = 0)
  BY FlowNow
<1>2. Ready /\ crankQ # <<>> /\ jobs = <<>> /\ ~yielding
  BY DEF Draining, Ready
<1>3. Coming = 0
  BY <1>1, <1>2, ComingType
<1>4. PICK k \in 0 .. NormalEdges :
         /\ Matched(k) /\ Memory(k) /\ Fits(Len(crankQ) + Coming, Unserved, NormalEdges - k)
         /\ CamIsClear => Cam(k)
         /\ Len(crankQ) + Coming <= NormalEdges
  BY FlowNow
<1>5. Len(crankQ) \in Nat \ {0} /\ Len(crankQ) + Coming = Len(crankQ) /\ NormalEdges \in Nat \ {0}
  BY <1>2, <1>3, LoopAssumption DEF TypeOK
<1>6. Matched(Turn(k))' /\ Len(crankQ') = Len(crankQ) - 1 /\ Turn(k) \in 0 .. NormalEdges
  BY <1>2, <1>4, <1>5, MatchedTail
<1>7. (k = NormalEdges => Turn(k) = 0) /\ (k < NormalEdges => Turn(k) = k + 1)
      /\ NormalEdges - Turn(k) = Left(NormalEdges - k)
  BY <1>5 DEF Turn, Left
<1> QED BY <1>1, <1>2, <1>4, <1>5, <1>6, <1>7

LEMMA ReferenceToothFlow ==
    ASSUME TypeOK, QueueInv, Roomy, speed > 0, ReferenceTooth
    PROVE  QueueInv'
<1> DEFINE n == Len(crankQ)
<1>1. /\ Draining /\ Result.err = None /\ Result.dec.count = 0 /\ decoder' = Result.dec
      /\ crankQ' = Tail(crankQ) /\ speed' = speed /\ pos' = pos /\ carry' = carry
      /\ camQ' = camQ /\ yielding' = yielding /\ lost' = lost
  BY DEF ReferenceTooth, wheel
<1>2. /\ ~lost /\ carry = 0 /\ jobs = <<>> /\ ~yielding /\ budget = 0
      /\ n \in Nat \ {0} /\ Len(crankQ') = n - 1
  BY <1>1, DrainNow
<1>3. PICK k \in 0 .. NormalEdges :
         /\ Matched(k) /\ Memory(k) /\ Fits(n, Unserved, NormalEdges - k)
         /\ CamIsClear => Cam(k)
         /\ Matched(Turn(k))' /\ (k = NormalEdges => Turn(k) = 0)
  BY <1>1, DrainNow
<1>4. /\ k = NormalEdges /\ decoder'.sync = "CrankSynced"
      /\ decoder'.dur[1] \in {0, Before(Turn(k))}
      /\ Synced(decoder') => decoder'.count = Turn(k) /\ ~decoder'.first /\ decoder'.dur[1] = Before(Turn(k))
  BY <1>1, <1>3, ToothOutcome
<1>5. Memory(0)' /\ Matched(0)'
  BY <1>3, <1>4 DEF Memory, Synced, Before, EdgeTime
<1>6. injected' = {} /\ \E cut \in BOOLEAN : jobs' = ReferenceJobs(cut, batched') /\ batched' \in BOOLEAN
  BY ReferenceToothWork
<1>7. PICK cut \in SparkCuts : Sleep(ReferenceJobs(cut, batched') \o SequentialJobs(injected'))
  BY DEF ReferenceTooth
<1>8. /\ jobs' \in Seq(Job) /\ Len(jobs') \in 0 .. 2 * Len(FiringOrder) /\ Sleep(jobs')
  <2>1. Sleep(jobs')
    BY <1>7 DEF Sleep
  <2> QED BY <1>6, <2>1, ReferenceWork
<1>9. Coming' = Len(jobs') * speed
  BY <1>1, <1>8, SleepComing
<1>10. Coming' \in 0 .. Busy /\ Busy \in Nat /\ Waiting \in Nat /\ speed \in Nat \ {0} /\ NormalEdges \in Nat \ {0}
  <2>1. Busy \in Nat /\ Waiting \in Nat /\ speed \in Nat \ {0} /\ NormalEdges \in Nat
    BY RoomType
  <2>2. Len(FiringOrder) \in Nat /\ 2 * Len(FiringOrder) \in Nat
    BY Order
  <2>3. Len(jobs') * speed <= (2 * Len(FiringOrder)) * speed /\ Len(jobs') * speed \in Nat
    <3>1. Len(jobs') \in Nat /\ Len(jobs') <= 2 * Len(FiringOrder)
      BY <1>8, <2>2
    <3> QED BY <2>1, <2>2, <3>1, Products
  <2>4. Busy = (2 * Len(FiringOrder)) * speed
    BY <2>1, <2>2 DEF Busy
  <2>5. NormalEdges # 0
    BY LoopAssumption
  <2> QED BY <1>9, <2>1, <2>3, <2>4, <2>5
<1>11. Unserved' = Len(FiringOrder) /\ Unserved' \in Nat
  <2>1. Unserved' = Len(FiringOrder) - Cardinality({})
    BY <1>4, <1>6 DEF Unserved, Synced
  <2> QED BY <2>1, FS_EmptySet, Order
<1>12. Unserved \in Nat
  BY UnservedType, Order
<1>13. /\ Fits(Len(crankQ') + Coming', Unserved', NormalEdges)
       /\ Len(crankQ') + Coming' <= Waiting + Busy
  <2>1. Fits(n, Unserved, 0)
    BY <1>3, <1>4, <1>10
  <2>2. Len(crankQ') + Coming' \in Nat /\ Len(crankQ') + Coming' < n + Busy
    BY <1>2, <1>10
  <2> QED BY <1>2, <1>11, <1>12, <2>1, <2>2, FitsReference, Order
<1>14. ASSUME CamIsClear PROVE Cam(0)'
  <2>1. ~camQ
    <3> SUFFICES ASSUME camQ PROVE FALSE
      OBVIOUS
    <3>1. pos = k + n
      BY <1>3, <1>14 DEF Cam
    <3>2. pos \in 0 .. NormalEdges
      BY DEF TypeOK
    <3> QED BY <1>2, <1>4, <1>10, <3>1, <3>2
  <2>2. Waiting' = Waiting /\ Busy' = Busy
    BY <1>1 DEF Waiting, Busy
  <2> QED BY <1>1, <1>4, <1>13, <2>1, <2>2 DEF Cam
<1>15. Ready' => budget' = 0
  BY <1>8 DEF Ready, Sleep
<1> QED
  <2>1. 0 \in 0 .. NormalEdges /\ NormalEdges - 0 = NormalEdges
    BY <1>10
  <2> QED BY <1>1, <1>2, <1>5, <1>13, <1>14, <1>15, <2>1, FlowNext

LEMMA PlainToothFlow ==
    ASSUME TypeOK, QueueInv, Roomy, speed > 0, PlainTooth
    PROVE  QueueInv'
<1> DEFINE n == Len(crankQ)
           serve == ToServe(decoder', injected, dfcoActive)
<1>1. /\ Draining /\ Result.err = None /\ Result.dec.count # 0 /\ decoder' = Result.dec
      /\ crankQ' = Tail(crankQ) /\ speed' = speed /\ pos' = pos /\ carry' = carry /\ cammed' = cammed
      /\ camQ' = camQ /\ yielding' = yielding /\ lost' = lost
      /\ injected' = injected \cup serve /\ Sleep(SequentialJobs(serve))
  BY DEF PlainTooth, wheel, history
<1>2. /\ ~lost /\ carry = 0 /\ jobs = <<>> /\ ~yielding /\ budget = 0
      /\ n \in Nat \ {0} /\ Len(crankQ') = n - 1
  BY <1>1, DrainNow
<1>3. PICK k \in 0 .. NormalEdges :
         /\ Matched(k) /\ Memory(k) /\ Fits(n, Unserved, NormalEdges - k)
         /\ CamIsClear => Cam(k)
         /\ Matched(Turn(k))' /\ Turn(k) \in 0 .. NormalEdges
         /\ NormalEdges - Turn(k) = Left(NormalEdges - k)
         /\ k < NormalEdges => Turn(k) = k + 1
  BY <1>1, DrainNow
<1>4. /\ decoder'.dur[1] \in {0, Before(Turn(k))}
      /\ Synced(decoder') => decoder'.count = Turn(k) /\ ~decoder'.first /\ decoder'.dur[1] = Before(Turn(k))
      /\ decoder'.sync = decoder.sync /\ decoder'.phase = decoder.phase
      /\ Synced(decoder') => k < NormalEdges
  BY <1>1, <1>3, ToothOutcome
<1>5. Memory(Turn(k))'
  BY <1>4 DEF Memory, Before, EdgeTime, Synced
<1>6. /\ serve \subseteq Cylinders \ injected /\ injected \subseteq Cylinders
      /\ decoder'.sync # "FullSync" => serve = {}
      /\ SequentialJobs(serve) \in Seq(Job)
      /\ Len(SequentialJobs(serve)) = IF serve = {} THEN 0 ELSE 1
  <2>1. injected \in SUBSET Cylinders /\ dfcoActive \in BOOLEAN
    BY DEF TypeOK
  <2> QED BY <2>1, SequentialWork, SequentialWorkLength
<1> HIDE DEF serve
<1>7. Coming' = IF serve = {} THEN 0 ELSE speed
  <2>1. Coming' = Len(SequentialJobs(serve)) * speed
    BY <1>1, <1>6, SleepComing
  <2>2. speed \in Nat
    BY RoomType
  <2> QED BY <1>6, <2>1, <2>2
<1>8. /\ Unserved \in Nat /\ Unserved' \in Nat
      /\ serve = {} => Unserved' = Unserved
      /\ serve # {} => Unserved' < Unserved
  <2>1. Unserved \in Nat
    BY UnservedType, Order
  <2>2. injected' \in SUBSET Cylinders /\ Len(FiringOrder) \in Nat
    BY <1>1, <1>6, Order
  <2>3. IsFiniteSet(injected) /\ Cardinality(injected) \in 0 .. Len(FiringOrder)
        /\ IsFiniteSet(injected') /\ Cardinality(injected') \in 0 .. Len(FiringOrder)
    BY <1>6, <2>2, CylinderCount
  <2>4. Synced(decoder') <=> Synced(decoder)
    BY <1>4 DEF Synced
  <2>5. ASSUME serve = {}
        PROVE  Unserved' = Unserved
    <3>1. injected' = injected
      BY <1>1, <2>5
    <3> QED BY <2>4, <3>1 DEF Unserved
  <2>6. ASSUME serve # {}
        PROVE  Unserved' < Unserved /\ Unserved' \in Nat
    <3>1. PICK c \in serve : TRUE
      BY <2>6
    <3>2. Cardinality(injected \cup {c}) = Cardinality(injected) + 1
      BY <1>6, <2>3, <3>1, FS_AddElement
    <3>3. Cardinality(injected \cup {c}) <= Cardinality(injected')
      BY <1>1, <2>3, <3>1, FS_Subset
    <3>4. Synced(decoder)
      BY <1>4, <1>6, <2>6 DEF Synced
    <3>5. /\ Unserved = Len(FiringOrder) - Cardinality(injected)
          /\ Unserved' = Len(FiringOrder) - Cardinality(injected')
      BY <2>4, <3>4 DEF Unserved
    <3> QED BY <2>2, <2>3, <3>2, <3>3, <3>5
  <2> QED BY <2>1, <2>5, <2>6
<1>9. speed \in Nat \ {0} /\ NormalEdges \in Nat
  BY RoomType
<1>10. Fits(Len(crankQ') + Coming', Unserved', NormalEdges - Turn(k))
  <2>1. NormalEdges - k \in Nat /\ n \in Nat
    BY <1>2, <1>9
  <2>2. CASE serve = {}
    <3>1. Len(crankQ') + Coming' \in Nat /\ Len(crankQ') + Coming' < n /\ Unserved' <= Unserved
      BY <1>2, <1>7, <1>8, <2>2
    <3> QED BY <1>3, <1>8, <2>1, <3>1, FitsTooth
  <2>3. CASE serve # {}
    <3>1. Len(crankQ') + Coming' \in Nat /\ Len(crankQ') + Coming' < n + speed /\ Unserved' < Unserved
      BY <1>2, <1>7, <1>8, <1>9, <2>3
    <3> QED BY <1>3, <1>8, <2>1, <3>1, FitsServed
  <2> QED BY <2>2, <2>3
<1>11. /\ jobs' = SequentialJobs(serve) /\ (jobs' # <<>> => serve # {})
       /\ jobs' = <<>> => budget' = 0
  <2>1. serve = {} => SequentialJobs(serve) = <<>>
    BY DEF SequentialJobs
  <2> QED BY <1>1, <2>1 DEF Sleep
<1>12. ASSUME CamIsClear PROVE Cam(Turn(k))'
  <2>1. Cam(k) /\ CamTooth \in 0 .. NormalEdges
    BY <1>3, <1>12, LoopAssumption DEF CamIsClear
  <2>2. ASSUME decoder'.sync = "FullSync"
        PROVE  /\ decoder'.phase = (CamTooth > PresentTeeth \div 2)
               /\ Turn(k) >= CamTooth
               /\ pos' = CamTooth => cammed'
    <3>1. k < NormalEdges
      BY <1>4, <2>2 DEF Synced
    <3>2. decoder.phase = (CamTooth > PresentTeeth \div 2) /\ k >= CamTooth /\ (pos = CamTooth => cammed)
      BY <1>4, <2>1, <2>2 DEF Cam
    <3> QED BY <1>1, <1>3, <1>4, <1>9, <2>1, <3>1, <3>2
  <2>3. ASSUME camQ'
        PROVE  /\ jobs' = <<>> /\ decoder'.sync # "FullSync" /\ cammed'
               /\ pos' = Turn(k) + Len(crankQ') /\ CamTooth <= pos' /\ pos' + budget' <= CamTooth + speed'
    <3>1. /\ decoder.sync # "FullSync" /\ cammed
          /\ pos = k + n /\ CamTooth <= pos /\ pos + budget <= CamTooth + speed
      BY <1>1, <2>1, <2>3 DEF Cam
    <3>2. pos \in 0 .. NormalEdges
      BY DEF TypeOK
    <3>3. k < NormalEdges /\ Turn(k) = k + 1
      BY <1>2, <1>3, <1>9, <3>1, <3>2
    <3>4. jobs' = <<>> /\ budget' = 0
      BY <1>4, <1>6, <1>11, <3>1
    <3> QED BY <1>1, <1>2, <1>4, <1>9, <3>1, <3>2, <3>3, <3>4
  <2>4. jobs' # <<>> => decoder'.sync = "FullSync"
    BY <1>6, <1>11
  <2> QED BY <2>2, <2>3, <2>4 DEF Cam
<1>13. Ready' => budget' = 0
  BY <1>11 DEF Ready
<1> QED BY <1>1, <1>2, <1>3, <1>5, <1>10, <1>12, <1>13, FlowNext

\* A tooth without work: the cam pulse, if it waits, goes on waiting.
LEMMA CamWaits ==
    ASSUME TypeOK, NEW k \in 0 .. NormalEdges, NEW j \in 0 .. NormalEdges, Cam(k), CamTooth \in 0 .. NormalEdges,
           Len(crankQ) \in Nat \ {0}, Len(crankQ') = Len(crankQ) - 1,
           k < NormalEdges => j = k + 1,
           jobs' = <<>>, budget' = 0, UNCHANGED <<speed, pos, cammed, camQ>>,
           decoder'.sync = "FullSync" =>
              k < NormalEdges /\ decoder.sync = "FullSync" /\ decoder'.phase = decoder.phase
    PROVE  Cam(j)'
<1>1. NormalEdges \in Nat /\ pos \in 0 .. NormalEdges /\ speed \in Nat /\ budget \in Nat
  BY LoopAssumption DEF TypeOK
<1>2. ASSUME decoder'.sync = "FullSync"
      PROVE  /\ decoder'.phase = (CamTooth > PresentTeeth \div 2)
             /\ j >= CamTooth
             /\ pos' = CamTooth => cammed'
  <2>1. decoder.phase = (CamTooth > PresentTeeth \div 2) /\ k >= CamTooth /\ (pos = CamTooth => cammed)
    BY <1>2 DEF Cam
  <2>2. j = k + 1
    BY <1>2
  <2> QED BY <1>1, <1>2, <2>1, <2>2
<1>3. ASSUME camQ'
      PROVE  /\ decoder'.sync # "FullSync" /\ cammed'
             /\ pos' = j + Len(crankQ') /\ CamTooth <= pos' /\ pos' + budget' <= CamTooth + speed'
  <2>1. /\ decoder.sync # "FullSync" /\ cammed
        /\ pos = k + Len(crankQ) /\ CamTooth <= pos /\ pos + budget <= CamTooth + speed
    BY <1>3 DEF Cam
  <2>2. k < NormalEdges
    BY <1>1, <2>1
  <2> QED BY <1>1, <2>1, <2>2
<1> QED BY <1>2, <1>3 DEF Cam

LEMMA SlowToothFlow ==
    ASSUME TypeOK, QueueInv, Roomy, speed > 0, SlowTooth
    PROVE  QueueInv'
<1> DEFINE n == Len(crankQ)
<1>1. /\ Draining /\ Result.err = None /\ decoder' = Result.dec /\ crankQ' = Tail(crankQ)
      /\ UNCHANGED <<speed, pos, carry, cammed, camQ, budget, jobs, yielding, lost>>
      /\ IF decoder'.count = 0 THEN injected' = {} ELSE injected' = injected
  BY DEF SlowTooth, wheel
<1>2. /\ ~lost /\ carry = 0 /\ jobs = <<>> /\ ~yielding /\ budget = 0
      /\ n \in Nat \ {0} /\ Len(crankQ') = n - 1
  BY <1>1, DrainNow
<1>3. PICK k \in 0 .. NormalEdges :
         /\ Matched(k) /\ Memory(k) /\ Fits(n, Unserved, NormalEdges - k)
         /\ CamIsClear => Cam(k)
         /\ Matched(Turn(k))' /\ Turn(k) \in 0 .. NormalEdges
         /\ NormalEdges - Turn(k) = Left(NormalEdges - k)
         /\ (k = NormalEdges => Turn(k) = 0) /\ (k < NormalEdges => Turn(k) = k + 1)
  BY <1>1, DrainNow
<1>4. /\ decoder'.dur[1] \in {0, Before(Turn(k))}
      /\ Synced(decoder') => decoder'.count = Turn(k) /\ ~decoder'.first /\ decoder'.dur[1] = Before(Turn(k))
      /\ decoder'.count = 0 => k = NormalEdges /\ decoder'.sync = "CrankSynced"
      /\ decoder'.count # 0 => decoder'.sync = decoder.sync /\ decoder'.phase = decoder.phase
      /\ decoder'.count # 0 /\ Synced(decoder') => k < NormalEdges
  BY <1>1, <1>3, ToothOutcome
<1>5. Memory(Turn(k))'
  BY <1>4 DEF Memory, Before, EdgeTime, Synced
<1>6. Coming' = 0
  BY <1>1, <1>2 DEF Coming
<1>7. /\ Unserved \in Nat /\ Busy \in Nat /\ NormalEdges \in Nat /\ Len(FiringOrder) \in Nat
      /\ Len(crankQ') + Coming' \in Nat /\ Len(crankQ') + Coming' < n
  BY <1>2, <1>6, UnservedType, Order, RoomType
<1>8. Fits(Len(crankQ') + Coming', Unserved', NormalEdges - Turn(k))
  <2>1. CASE decoder'.count = 0
    <3>1. Unserved' = Len(FiringOrder) - Cardinality({})
      BY <1>1, <1>4, <2>1 DEF Unserved, Synced
    <3>2. Unserved' = Len(FiringOrder)
      BY <1>7, <3>1, FS_EmptySet
    <3>3. Fits(n, Unserved, 0) /\ Turn(k) = 0
      BY <1>3, <1>4, <1>7, <2>1
    <3>4. Len(crankQ') + Coming' < n + Busy
      BY <1>2, <1>6, <1>7
    <3>5. Fits(Len(crankQ') + Coming', Unserved', NormalEdges)
      BY <1>2, <1>7, <3>2, <3>3, <3>4, FitsReference
    <3> QED BY <1>7, <3>3, <3>5
  <2>2. CASE decoder'.count # 0
    <3>1. Unserved' = Unserved
      BY <1>1, <1>4, <2>2 DEF Unserved, Synced
    <3>2. NormalEdges - k \in Nat /\ n \in Nat
      BY <1>2, <1>7
    <3> QED BY <1>3, <1>7, <3>1, <3>2, FitsTooth
  <2> QED BY <2>1, <2>2
<1>9. CamIsClear => Cam(Turn(k))'
  <2> SUFFICES ASSUME CamIsClear PROVE Cam(Turn(k))'
    OBVIOUS
  <2>1. Cam(k) /\ CamTooth \in 0 .. NormalEdges
    BY <1>3, LoopAssumption DEF CamIsClear
  <2>2. decoder'.sync = "FullSync" => k < NormalEdges /\ decoder.sync = "FullSync" /\ decoder'.phase = decoder.phase
    BY <1>4 DEF Synced
  <2> QED BY <1>1, <1>2, <1>3, <2>1, <2>2, CamWaits
<1> QED BY <1>1, <1>2, <1>3, <1>5, <1>8, <1>9, FlowNext

LEMMA BadToothFlow ==
    ASSUME TypeOK, QueueInv, Roomy, speed > 0, BadTooth
    PROVE  QueueInv'
<1> DEFINE n == Len(crankQ)
<1>1. /\ Draining /\ decoder' = NewDecoder /\ crankQ' = Tail(crankQ)
      /\ UNCHANGED <<speed, pos, carry, cammed, camQ, budget, jobs, yielding, lost>>
  BY DEF BadTooth, Reset, wheel, history
<1>2. /\ ~lost /\ carry = 0 /\ jobs = <<>> /\ ~yielding /\ budget = 0
      /\ n \in Nat \ {0} /\ Len(crankQ') = n - 1
  BY <1>1, DrainNow
<1>3. PICK k \in 0 .. NormalEdges :
         /\ Fits(n, Unserved, NormalEdges - k)
         /\ CamIsClear => Cam(k)
         /\ Matched(Turn(k))' /\ Turn(k) \in 0 .. NormalEdges
         /\ NormalEdges - Turn(k) = Left(NormalEdges - k)
         /\ (k < NormalEdges => Turn(k) = k + 1)
  BY <1>1, DrainNow
<1>4. decoder'.sync = "Unsynced" /\ decoder'.dur[1] = 0
  BY <1>1 DEF NewDecoder
<1>5. Memory(Turn(k))'
  BY <1>4 DEF Memory, Synced
<1>6. Coming' = 0 /\ Unserved' = 0
  BY <1>1, <1>2, <1>4 DEF Coming, Unserved, Synced
<1>7. /\ Unserved \in Nat /\ NormalEdges - k \in Nat /\ n \in Nat
      /\ Len(crankQ') + Coming' \in Nat /\ Len(crankQ') + Coming' < n
  BY <1>2, <1>6, UnservedType, Order, RoomType
<1>8. Fits(Len(crankQ') + Coming', Unserved', NormalEdges - Turn(k))
  BY <1>3, <1>6, <1>7, FitsTooth
<1>9. CamIsClear => Cam(Turn(k))'
  <2> SUFFICES ASSUME CamIsClear PROVE Cam(Turn(k))'
    OBVIOUS
  <2>1. Cam(k) /\ CamTooth \in 0 .. NormalEdges
    BY <1>3, LoopAssumption DEF CamIsClear
  <2> QED BY <1>1, <1>2, <1>3, <1>4, <2>1, CamWaits
<1> QED BY <1>1, <1>2, <1>3, <1>5, <1>8, <1>9, FlowNext

LEMMA FinishJobFlow ==
    ASSUME TypeOK, QueueInv, Roomy, speed > 0, FinishJob
    PROVE  QueueInv'
<1> DEFINE n == Len(crankQ)
<1>1. /\ ~lost /\ carry = 0 /\ (yielding => jobs = <<>>)
  BY FlowNow
<1>2. PICK k \in 0 .. NormalEdges :
         /\ Matched(k) /\ Memory(k) /\ Fits(n + Coming, Unserved, NormalEdges - k)
         /\ CamIsClear => Cam(k)
  BY FlowNow
<1>3. /\ jobs # <<>> /\ Sleep(Tail(jobs))
      /\ UNCHANGED <<speed, pos, carry, cammed, crankQ, camQ, decoder, injected, yielding, lost>>
  BY DEF FinishJob, wheel, queues
<1>4. /\ n \in Nat /\ speed \in Nat \ {0} /\ budget \in Nat /\ Coming \in Nat /\ NormalEdges - k \in Nat
      /\ Unserved \in Nat /\ jobs \in Seq(Job) /\ Len(jobs) \in Nat \ {0}
  <2>1. n \in Nat /\ jobs \in Seq(Job) /\ NormalEdges \in Nat /\ speed \in Nat \ {0}
    BY RoomType DEF TypeOK, Job
  <2>2. budget \in Nat /\ Coming \in Nat /\ Unserved \in Nat
    BY <2>1, ComingType, UnservedType, Order DEF TypeOK
  <2> QED BY <1>3, <2>1, <2>2
<1>5. Tail(jobs) \in Seq(Job) /\ Len(Tail(jobs)) = Len(jobs) - 1
  BY <1>3, <1>4
<1>6. Coming' = (Len(jobs) - 1) * speed
  BY <1>3, <1>5, SleepComing
<1>7. Coming' \in Nat /\ Coming' <= Coming
  <2>1. CASE Len(jobs) = 1
    <3>1. (Len(jobs) - 1) * speed = 0
      BY <1>4, <2>1
    <3> QED BY <1>4, <1>6, <3>1
  <2>2. CASE Len(jobs) > 1
    <3>1. (Len(jobs) - 1) * speed \in Nat
      BY <1>4
    <3>2. Coming = budget + (Len(jobs) - 1) * speed
      BY <2>2 DEF Coming
    <3> QED BY <1>4, <1>6, <3>1, <3>2
  <2>3. \A m \in Nat \ {0} : m = 1 \/ m > 1
    OBVIOUS
  <2> QED BY <1>4, <2>1, <2>2, <2>3, Zenon
<1>8. Unserved' = Unserved /\ Matched(k)' /\ Memory(k)'
  BY <1>2, <1>3 DEF Unserved, Matched, Memory
<1>9. Fits(Len(crankQ') + Coming', Unserved', NormalEdges - k)
  <2>1. n + Coming \in Nat /\ Len(crankQ') + Coming' \in Nat /\ Len(crankQ') + Coming' <= n + Coming
    BY <1>3, <1>4, <1>7
  <2> QED BY <1>2, <1>4, <1>8, <2>1, FitsLess
<1>10. ASSUME CamIsClear PROVE Cam(k)'
  <2>1. Cam(k)
    BY <1>2, <1>10
  <2>2. ~camQ
    BY <1>3, <2>1 DEF Cam
  <2>3. decoder.sync = "FullSync" \/ (k = 0 /\ Len(crankQ') + Coming' <= Waiting' + Busy')
    <3>1. Waiting' = Waiting /\ Busy' = Busy /\ Waiting \in Nat /\ Busy \in Nat
      BY <1>3, RoomType DEF Waiting, Busy
    <3>2. decoder.sync = "FullSync" \/ (k = 0 /\ n + Coming <= Waiting + Busy)
      BY <1>3, <2>1 DEF Cam
    <3> QED BY <1>3, <1>4, <1>7, <3>1, <3>2
  <2> QED BY <1>3, <2>1, <2>2, <2>3 DEF Cam
<1>11. (Ready' => budget' = 0) /\ ~yielding'
  BY <1>1, <1>3 DEF Ready, Sleep
<1> QED BY <1>1, <1>2, <1>3, <1>8, <1>9, <1>10, <1>11, FlowNext

\* The cam pulse is looked at with the crank queue empty, so the count is the position of the wheel.
LEMMA CamThenYieldFlow ==
    ASSUME TypeOK, QueueInv, Roomy, speed > 0, CamThenYield
    PROVE  QueueInv'
<1>1. /\ Ready /\ jobs = <<>> /\ crankQ = <<>>
      /\ decoder' = IF camQ THEN ProcessCam(decoder, 0).dec ELSE decoder
      /\ camQ' = FALSE /\ yielding' = TRUE /\ budget' = speed
      /\ UNCHANGED <<speed, pos, carry, cammed, crankQ, injected, jobs, lost>>
  BY DEF CamThenYield, wheel, history, Ready
<1>2. ~lost /\ carry = 0 /\ budget = 0
  BY <1>1, FlowNow
<1>3. PICK k \in 0 .. NormalEdges :
         Matched(k) /\ Memory(k) /\ (CamIsClear => Cam(k))
  BY FlowNow
<1>4. /\ speed \in Nat \ {0} /\ NormalEdges \in Nat /\ NormalEdges - k \in Nat
      /\ Len(crankQ) = 0 /\ Len(jobs) = 0 /\ Len(FiringOrder) \in Nat
  BY <1>1, RoomType, Order
<1>5. pos = k
  <2>1. pos = k + 0 \/ pos = k + 0 - (NormalEdges + 1)
    BY <1>3, <1>4 DEF Matched
  <2> QED BY <1>4, <2>1 DEF TypeOK
<1>6. /\ decoder'.first = decoder.first /\ decoder'.dur = decoder.dur /\ decoder'.count = decoder.count
      /\ \/ decoder'.sync = decoder.sync /\ decoder'.phase = decoder.phase
         \/ /\ camQ /\ decoder.sync = "CrankSynced" /\ decoder'.sync = "FullSync"
            /\ decoder'.phase = (decoder.count > PresentTeeth \div 2)
  <2>1. ~TimedOut(decoder, 0)
    BY DecoderAssumption DEF TimedOut
  <2>2. decoder \in Decoder
    BY DEF TypeOK
  <2>3. CASE ~camQ
    BY <1>1, <2>3
  <2>4. CASE camQ /\ decoder.sync # "CrankSynced"
    BY <1>1, <2>1, <2>4 DEF ProcessCam, Ok
  <2>5. CASE camQ /\ decoder.sync = "CrankSynced"
    BY <1>1, <2>1, <2>2, <2>5 DEF ProcessCam, Ok, Decoder
  <2> QED BY <2>3, <2>4, <2>5
<1>7. Synced(decoder') <=> Synced(decoder)
  BY <1>6 DEF Synced
<1>8. Matched(k)' /\ Memory(k)'
  <2>1. Matched(k)'
    BY <1>1, <1>3 DEF Matched
  <2> QED BY <1>3, <1>6, <1>7, <2>1 DEF Memory
<1>9. Coming' = speed /\ Unserved' = Unserved /\ Len(crankQ') + Coming' = speed
  <2>1. Coming' = speed
    BY <1>1, <1>4 DEF Coming
  <2> QED BY <1>1, <1>4, <1>7, <2>1 DEF Unserved
<1>10. Fits(Len(crankQ') + Coming', Unserved', NormalEdges - k)
  <2>1. Unserved \in Nat /\ Unserved <= Len(FiringOrder)
    BY <1>4, UnservedType
  <2>2. Fits(speed, Unserved, NormalEdges - k)
    BY <1>4, <2>1, FitsYield
  <2> QED BY <1>9, <2>2
<1>11. ASSUME CamIsClear PROVE Cam(k)'
  <2>1. Cam(k)
    BY <1>3, <1>11
  <2>2. ASSUME decoder'.sync = "FullSync"
        PROVE  /\ decoder'.phase = (CamTooth > PresentTeeth \div 2)
               /\ k >= CamTooth
               /\ pos' = CamTooth => cammed'
    <3>1. CASE decoder'.sync = decoder.sync /\ decoder'.phase = decoder.phase
      BY <1>1, <2>1, <2>2, <3>1 DEF Cam
    <3>2. CASE /\ camQ /\ decoder.sync = "CrankSynced"
               /\ decoder'.phase = (decoder.count > PresentTeeth \div 2)
      <4>1. cammed /\ CamTooth <= k /\ k <= CamTooth + speed
        BY <1>2, <1>5, <2>1, <3>2 DEF Cam
      <4>2. decoder.count = k
        BY <1>3, <3>2 DEF Memory, Synced
      <4>3. /\ CamTooth \in Nat /\ PresentTeeth \div 2 \in Int
            /\ CamTooth > PresentTeeth \div 2 \/ CamTooth + speed <= PresentTeeth \div 2
        BY <1>11, LoopAssumption, WheelAssumption DEF CamIsClear, PresentTeeth
      <4>4. k > PresentTeeth \div 2 <=> CamTooth > PresentTeeth \div 2
        BY <1>4, <4>1, <4>3
      <4> QED BY <1>1, <3>2, <4>1, <4>2, <4>3, <4>4
    <3> QED BY <1>6, <3>1, <3>2
  <2> QED BY <1>1, <2>2 DEF Cam
<1>12. ~Ready'
  BY <1>1 DEF Ready
<1>13. jobs' = <<>> /\ Len(crankQ') + budget' <= speed
  BY <1>1, <1>4
<1> QED BY <1>1, <1>2, <1>8, <1>10, <1>11, <1>12, <1>13, FlowNext

LEMMA ResumeFlow ==
    ASSUME TypeOK, QueueInv, Roomy, speed > 0, Resume
    PROVE  QueueInv'
<1>1. /\ yielding /\ yielding' = FALSE /\ budget' = 0
      /\ UNCHANGED <<speed, pos, carry, cammed, crankQ, camQ, decoder, injected, jobs, lost>>
  BY DEF Resume, wheel, queues, history
<1>2. ~lost /\ carry = 0 /\ jobs = <<>>
  BY <1>1, FlowNow
<1>3. PICK k \in 0 .. NormalEdges :
         /\ Matched(k) /\ Memory(k) /\ (CamIsClear => Cam(k))
         /\ Fits(Len(crankQ) + Coming, Unserved, NormalEdges - k)
  BY FlowNow
<1>4. Matched(k)' /\ Memory(k)' /\ Unserved' = Unserved
  BY <1>1, <1>3 DEF Matched, Memory, Unserved
<1>5. Coming' = 0
  BY <1>1, <1>2 DEF Coming
<1>6. /\ Coming \in Nat /\ Len(crankQ) \in Nat /\ Unserved \in Nat /\ NormalEdges - k \in Nat
      /\ speed \in Nat /\ budget \in Nat
  <2>1. Len(crankQ) \in Nat /\ speed \in Nat /\ NormalEdges \in Nat
    BY RoomType DEF TypeOK
  <2>2. Coming \in Nat /\ Unserved \in Nat /\ budget \in Nat
    BY <2>1, ComingType, UnservedType, Order DEF TypeOK
  <2> QED BY <2>1, <2>2
<1>7. Fits(Len(crankQ') + Coming', Unserved', NormalEdges - k)
  <2>1. Len(crankQ') + Coming' \in Nat /\ Len(crankQ') + Coming' <= Len(crankQ) + Coming
    BY <1>1, <1>5, <1>6
  <2>2. Len(crankQ) + Coming \in Nat
    BY <1>6
  <2> QED BY <1>3, <1>4, <1>6, <2>1, <2>2, FitsLess
<1>8. ASSUME CamIsClear PROVE Cam(k)'
  <2>1. Cam(k) /\ CamTooth \in Nat /\ pos \in Nat
    BY <1>3, <1>8, LoopAssumption DEF CamIsClear, TypeOK
  <2>2. pos + budget <= CamTooth + speed => pos + 0 <= CamTooth + speed
    BY <1>6, <2>1
  <2> QED BY <1>1, <1>2, <2>1, <2>2 DEF Cam
<1> QED BY <1>1, <1>2, <1>3, <1>4, <1>7, <1>8, FlowNext

LEMMA QueueInit == Init => QueueInv /\ StillInv
<1> SUFFICES ASSUME Init PROVE QueueInv /\ StillInv
  OBVIOUS
<1>1. TypeOK
  BY TypeInit
<1>2. /\ pos \in 0 .. NormalEdges /\ cammed = FALSE /\ carry = 0 /\ crankQ = <<>> /\ camQ = FALSE
      /\ budget = 0 /\ jobs = <<>> /\ yielding = FALSE /\ lost = FALSE
      /\ decoder.sync = "Unsynced" /\ decoder.dur[1] = 0
  BY DEF Init, NewDecoder
<1>3. StillInv
  BY <1>2 DEF StillInv
<1>4. ASSUME Roomy, speed > 0
      PROVE  Flow(pos)
  <2>1. Len(crankQ) = 0 /\ Len(jobs) = 0 /\ pos \in Nat /\ NormalEdges \in Nat
    BY <1>2, <1>4, <1>1, RoomType
  <2>2. Matched(pos)
    BY <2>1 DEF Matched
  <2>3. Memory(pos)
    BY <1>2 DEF Memory, Synced
  <2>4. Coming = 0 /\ Unserved = 0 /\ Len(crankQ) + Coming = 0
    BY <1>2, <2>1 DEF Coming, Unserved, Synced
  <2>5. Fits(0, 0, NormalEdges - pos)
    <3>1. speed \in Nat \ {0} /\ NormalEdges - pos \in Nat /\ Len(FiringOrder) \in Nat
      BY <1>1, <1>2, <1>4, <2>1, RoomType, Order
    <3> QED BY <1>1, <1>4, <3>1, FitsYield
  <2>6. Cam(pos)
    BY <1>2 DEF Cam
  <2> QED BY <2>2, <2>3, <2>4, <2>5, <2>6 DEF Flow
<1>5. QueueInv
  BY <1>2, <1>4 DEF QueueInv
<1> QED BY <1>3, <1>5

LEMMA SpeedStays ==
    ASSUME Next
    PROVE  speed' = speed /\ (Roomy' <=> Roomy)
<1>1. speed' = speed
  BY DEF Next, LoopStep, CrankEdge, CamEdge, ReferenceTooth, PlainTooth, SlowTooth, BadTooth, FinishJob,
         CamThenYield, Resume, wheel
<1> QED BY <1>1 DEF Roomy, Peak, Waiting, Busy

LEMMA QueueStep ==
    ASSUME TypeOK, QueueInv, Next
    PROVE  QueueInv'
<1>1. speed' = speed /\ (Roomy' <=> Roomy)
  BY SpeedStays
<1>2. CASE Roomy /\ speed > 0
  BY <1>2, CrankEdgeFlow, CamEdgeFlow, ReferenceToothFlow, PlainToothFlow, SlowToothFlow, BadToothFlow,
     FinishJobFlow, CamThenYieldFlow, ResumeFlow DEF Next, LoopStep
<1>3. CASE ~(Roomy /\ speed > 0)
  BY <1>1, <1>3 DEF QueueInv
<1> QED BY <1>2, <1>3

LEMMA StillStep ==
    ASSUME TypeOK, StillInv, Next
    PROVE  StillInv'
<1> SUFFICES ASSUME speed' = 0
             PROVE  crankQ' = <<>> /\ ~lost' /\ decoder'.sync = "Unsynced"
  BY DEF StillInv
<1>1. speed = 0 /\ crankQ = <<>> /\ ~lost /\ decoder.sync = "Unsynced"
  BY SpeedStays DEF StillInv
<1>2. budget = 0
  BY <1>1 DEF TypeOK
<1>3. ~CrankEdge /\ ~CamEdge /\ ~ReferenceTooth /\ ~PlainTooth /\ ~SlowTooth /\ ~BadTooth
  BY <1>1, <1>2 DEF CrankEdge, CamEdge, ReferenceTooth, PlainTooth, SlowTooth, BadTooth, Draining
<1>4. CASE FinishJob
  BY <1>1, <1>4 DEF FinishJob, queues
<1>5. CASE CamThenYield
  <2>1. crankQ' = <<>> /\ lost' = lost /\ (decoder' = decoder \/ decoder' = ProcessCam(decoder, 0).dec)
    BY <1>1, <1>5 DEF CamThenYield, history
  <2>2. ProcessCam(decoder, 0).dec.sync = "Unsynced"
    BY <1>1 DEF ProcessCam, Fail, Ok, Reset, NewDecoder
  <2> QED BY <1>1, <2>1, <2>2
<1>6. CASE Resume
  BY <1>1, <1>6 DEF Resume, queues, history
<1> QED BY <1>3, <1>4, <1>5, <1>6 DEF Next, LoopStep

LEMMA QueueInvariance == Spec => [](TypeOK /\ QueueInv /\ StillInv)
<1>1. Init => TypeOK /\ QueueInv /\ StillInv
  BY TypeInit, QueueInit
<1>2. TypeOK /\ QueueInv /\ StillInv /\ [Next]_vars => (TypeOK /\ QueueInv /\ StillInv)'
  <2>1. ASSUME TypeOK, QueueInv, StillInv, Next
        PROVE  TypeOK' /\ QueueInv' /\ StillInv'
    BY <2>1, TypeStep, QueueStep, StillStep
  <2>2. ASSUME TypeOK, QueueInv, StillInv, UNCHANGED vars
        PROVE  TypeOK' /\ QueueInv' /\ StillInv'
    <3>1. UNCHANGED <<speed, pos, cammed, carry, crankQ, camQ, budget, decoder, seqActive, injected,
                      dfcoActive, jobs, yielding, fuel, batched, lost>>
      BY <2>2 DEF vars, wheel, queues, loop, history
    <3>2. TypeOK' /\ StillInv'
      BY <2>2, <3>1 DEF TypeOK, StillInv
    <3>3. QueueInv'
      BY <2>2, <3>1 DEF QueueInv, Flow, Matched, Memory, Cam, Fits, Coming, Unserved, Roomy, CamIsClear,
                        Peak, Waiting, Busy, Ready
    <3> QED BY <3>2, <3>3
  <2> QED BY <2>1, <2>2
<1> QED BY <1>1, <1>2, PTL DEF Spec

\* A roomy crank queue drops no edge, whatever the wheel, the number of cylinders, the speed and the
\* windows of the injectors (CRANK_QUEUE and the sleeps of control_loop).
THEOREM QueueHolds == Spec => []QueueSuffices
<1>1. TypeOK /\ QueueInv /\ StillInv => QueueSuffices
  <2> SUFFICES ASSUME TypeOK, QueueInv, StillInv, Roomy PROVE ~lost
    BY DEF QueueSuffices
  <2>1. speed = 0 \/ speed > 0
    BY LoopAssumption DEF TypeOK
  <2> QED BY <2>1 DEF QueueInv, StillInv
<1> QED BY <1>1, QueueInvariance, PTL

\* With a roomy queue and a cam tooth clear of the edges a reference tooth lets in, the phase is that
\* of the cam tooth, although control_loop looks at the cam queue after all crank edges.
THEOREM PhaseIsFound == Spec => []PhaseIsTrue
<1>1. TypeOK /\ QueueInv /\ StillInv => PhaseIsTrue
  <2> SUFFICES ASSUME TypeOK, QueueInv, StillInv, Roomy, CamIsClear, decoder.sync = "FullSync"
               PROVE  decoder.phase = (CamTooth > PresentTeeth \div 2)
    BY DEF PhaseIsTrue
  <2>1. speed > 0
    <3>1. speed = 0 \/ speed > 0
      BY LoopAssumption DEF TypeOK
    <3> QED BY <3>1 DEF StillInv
  <2>2. PICK k \in 0 .. NormalEdges : Cam(k)
    BY <2>1 DEF QueueInv, Flow
  <2> QED BY <2>2 DEF Cam
<1> QED BY <1>1, QueueInvariance, PTL
=============================================================================
