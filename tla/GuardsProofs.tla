---------------------------- MODULE GuardsProofs ----------------------------
(***************************************************************************)
(* Proofs about those parts of MCControllers that GuardsHold and RoundTrip *)
(* are about: throttle and heater, torque cuts, trigger aids, regulators,  *)
(* CAN, readings and COBS, each in a section of its own that ends with its *)
(* theorem.  ControllersProofs has the other parts.                        *)
(***************************************************************************)
EXTENDS MCControllers, FiniteSetTheorems, SequenceTheorems, WellFoundedInduction, TLAPS

----------------------------------------------------------------------------
(* A step of any part is a step of a given part or leaves that part alone. *)

LEMMA PartsAreApart ==
    ASSUME [PartsNext]_allVars
    PROVE  /\ C!Next \/ UNCHANGED cobsVars
           /\ E!Next \/ UNCHANGED guardVars
           /\ T!Next \/ UNCHANGED cutVars
           /\ A!Next \/ UNCHANGED aidVars
           /\ R!Next \/ UNCHANGED pidVars
           /\ D!Next \/ UNCHANGED readingVars
           /\ N!Next \/ UNCHANGED canVars
<1>1. CASE PartsNext
  BY <1>1 DEF PartsNext, RunOverrides, RunCobs, RunFuelling, RunOutputs, RunKey, RunGearbox, RunGuards,
         RunCuts, RunBoot, RunFuelPath, RunTriggerAids, RunRegulators, RunReadings, RunCanBus
<1>2. CASE UNCHANGED allVars
  BY <1>2 DEF allVars
<1> QED
  BY <1>1, <1>2, SMTT(30)

----------------------------------------------------------------------------
(* Numbers, which the parts below have in common.                          *)

LEMMA LeastOfSet ==
    ASSUME NEW X \in SUBSET Nat, X # {}
    PROVE  \E m \in X : \A n \in X : m <= n
<1> DEFINE up_to == {0 .. n : n \in X}
<1>1. up_to \subseteq FiniteSubsetsOf(Nat)
  <2> SUFFICES ASSUME NEW n \in X PROVE 0 .. n \in FiniteSubsetsOf(Nat)
    OBVIOUS
  <2>1. n \in Int /\ 0 \in Int /\ 0 .. n \subseteq Nat
    OBVIOUS
  <2>2. IsFiniteSet(0 .. n)
    BY <2>1, FS_Interval
  <2> QED BY <2>1, <2>2 DEF FiniteSubsetsOf
<1>2. \E x \in up_to : \A y \in up_to : ~(<<y, x>> \in StrictSubsetOrdering(Nat))
  <2>1. up_to # {}
    OBVIOUS
  <2>2. IsWellFoundedOn(StrictSubsetOrdering(Nat), FiniteSubsetsOf(Nat))
    BY FS_StrictSubsetOrderingWellFounded
  <2> HIDE DEF up_to
  <2> QED BY <1>1, <2>1, <2>2, WFMin
<1>3. PICK m \in X : \A n \in X : ~(<<0 .. n, 0 .. m>> \in StrictSubsetOrdering(Nat))
  BY <1>2
<1>4. \A n \in X : n < m => <<0 .. n, 0 .. m>> \in StrictSubsetOrdering(Nat)
  <2> SUFFICES ASSUME NEW n \in X, n < m PROVE <<0 .. n, 0 .. m>> \in StrictSubsetOrdering(Nat)
    OBVIOUS
  <2>1. 0 .. n \subseteq Nat /\ 0 .. m \subseteq Nat /\ 0 .. n \subseteq 0 .. m /\ m \in 0 .. m /\ m \notin 0 .. n
    OBVIOUS
  <2> QED BY <2>1 DEF StrictSubsetOrdering
<1>5. \A n \in X : ~(n < m)
  BY <1>3, <1>4
<1>6. \A n \in X : n \in Nat /\ m \in Nat
  OBVIOUS
<1>7. \A n \in Nat : m \in Nat /\ ~(n < m) => m <= n
  OBVIOUS
<1> QED BY <1>5, <1>6, <1>7

LEMMA LeastOfTwo ==
    ASSUME NEW a \in Int, NEW b \in Int
    PROVE  /\ N!Min({a, b}) \in Int /\ N!Min({a, b}) = (IF a <= b THEN a ELSE b)
           /\ N!Max({a, b}) \in Int /\ N!Max({a, b}) = (IF a <= b THEN b ELSE a)
<1>1. CASE a <= b
  <2>1. \E x \in {a, b} : \A y \in {a, b} : x <= y
    BY <1>1
  <2>2. \E x \in {a, b} : \A y \in {a, b} : x >= y
    BY <1>1
  <2>3. N!Min({a, b}) \in {a, b} /\ \A y \in {a, b} : N!Min({a, b}) <= y
    BY <2>1 DEF N!Min
  <2>4. N!Max({a, b}) \in {a, b} /\ \A y \in {a, b} : N!Max({a, b}) >= y
    BY <2>2 DEF N!Max
  <2> QED BY <1>1, <2>3, <2>4
<1>2. CASE b < a
  <2>1. \E x \in {a, b} : \A y \in {a, b} : x <= y
    BY <1>2
  <2>2. \E x \in {a, b} : \A y \in {a, b} : x >= y
    BY <1>2
  <2>3. N!Min({a, b}) \in {a, b} /\ \A y \in {a, b} : N!Min({a, b}) <= y
    BY <2>1 DEF N!Min
  <2>4. N!Max({a, b}) \in {a, b} /\ \A y \in {a, b} : N!Max({a, b}) >= y
    BY <2>2 DEF N!Max
  <2> QED BY <1>2, <2>3, <2>4
<1> QED BY <1>1, <1>2

LEMMA QuotientGrows ==
    ASSUME NEW m \in Nat \ {0}, NEW a \in Int, NEW b \in Int, a <= b
    PROVE  a \div m \in Int /\ b \div m \in Int /\ a \div m <= b \div m
<1> DEFINE p == a \div m  q == b \div m
<1>1. p \in Int /\ q \in Int /\ m * p <= a /\ b < m * (q + 1)
  OBVIOUS
<1> HIDE DEF p, q
<1>2. m * p \in Int /\ m * (q + 1) \in Int
  BY <1>1
<1>3. m * p < m * (q + 1)
  BY <1>1, <1>2
<1>4. p < q + 1
  BY <1>1, <1>3
<1>5. p <= q
  BY <1>1, <1>4
<1> QED BY <1>1, <1>5 DEF p, q

\* Two products with one factor.
LEMMA ProductGrows ==
    ASSUME NEW r \in Nat, NEW a \in Int, NEW b \in Int, a <= b
    PROVE  r * a \in Int /\ r * b \in Int /\ r * a <= r * b
OBVIOUS

LEMMA Quotient ==
    ASSUME NEW x \in Int, NEW m \in Nat \ {0}
    PROVE  /\ x \div m \in Int /\ m * (x \div m) \in Int
           /\ m * (x \div m) <= x /\ x < m * (x \div m) + m
<1> DEFINE q == x \div m
<1>1. q \in Int /\ m * q <= x /\ x < m * (q + 1)
  OBVIOUS
<1> HIDE DEF q
<1>2. m * (q + 1) = m * q + m /\ m * q \in Int
  BY <1>1
<1> QED BY <1>1, <1>2 DEF q

\* What is not above x in steps of m is not above the quotient, and what is above it is above.
LEMMA QuotientBounds ==
    ASSUME NEW x \in Int, NEW m \in Nat \ {0}, NEW k \in Int
    PROVE  /\ m * k <= x => k <= x \div m
           /\ x < m * k => x \div m < k
           /\ m * k = x => x \div m = k
<1> DEFINE q == x \div m
<1>1. q \in Int /\ m * q \in Int /\ m * q <= x /\ x < m * q + m
  BY Quotient
<1> HIDE DEF q
<1>2. m * k \in Int
  OBVIOUS
<1>3. k > q => m * k >= m * q + m
  <2>1. k > q => m * k >= m * (q + 1)
    BY <1>1
  <2>2. m * (q + 1) = m * q + m
    BY <1>1
  <2> QED BY <2>1, <2>2
<1>4. k <= q => m * k <= m * q
  BY <1>1
<1>5. m * k <= x => k <= q
  BY <1>1, <1>2, <1>3
<1>6. x < m * k => q < k
  BY <1>1, <1>2, <1>4
<1>7. m * k = x => k <= q /\ ~(k < q)
  <2>1. k < q => m * k + m <= m * q
    <3>1. k < q => m * (k + 1) <= m * q
      BY <1>1
    <3>2. m * (k + 1) = m * k + m
      OBVIOUS
    <3> QED BY <3>1, <3>2
  <2> QED BY <1>1, <1>2, <1>5, <2>1
<1> QED BY <1>1, <1>5, <1>6, <1>7 DEF q

----------------------------------------------------------------------------
(* Throttle and heater.                                                    *)

\* While nothing is wrong the controller has counted what the history has, and neither is too much.
ThrottleInv ==
    /\ etb \in [implausible : Nat, error_timer : Nat, fault : {None, "TpsImplausible", "PositionTimeout"}]
    /\ apart \in 0 .. Count /\ astray \in 0 .. Timeout /\ tripped \in BOOLEAN /\ driven \in BOOLEAN
    /\ etb.fault # None <=> tripped
    /\ etb.fault = None => /\ etb.implausible = apart /\ apart < Count
                           /\ etb.error_timer = astray /\ astray < Timeout
    /\ driven => ~tripped

\* The heater has counted no more time than has gone by, and is dry when it ramps up.
HeaterInv ==
    /\ heater \in [phase : {"Off", "Condensation", "Ramp", "Hold"}, elapsed : Nat, volts : Nat]
    /\ turned \in Nat /\ heater.elapsed <= turned
    /\ heater.phase \in {"Ramp", "Hold"} => turned >= Dry
    /\ heater.phase \in {"Off", "Condensation"} => heater.volts <= E!Warm

LEMMA GuardNumbers ==
    /\ Count \in 1 .. 255 /\ Timeout \in Nat \ {0} /\ Dry \in Nat /\ Climb \in Nat /\ MaxStep \in Nat
    /\ Updates \subseteq Nat /\ None \notin {"TpsImplausible", "PositionTimeout", "agrees", "differs"}
BY PartsAssumption DEF E!Parameters

LEMMA ThrottleStep ==
    ASSUME ThrottleInv, E!Next \/ UNCHANGED guardVars
    PROVE  ThrottleInv'
<1> DEFINE Faults == {None, "TpsImplausible", "PositionTimeout"}
           T3 == [implausible : Nat, error_timer : Nat, fault : Faults]
<1>1. etb \in T3 /\ apart \in 0 .. Count /\ astray \in 0 .. Timeout
  BY DEF ThrottleInv
<1>2. CASE E!ClearFault
  <2>1. etb' = [implausible |-> 0, error_timer |-> 0, fault |-> None] /\ apart' = 0 /\ astray' = 0
        /\ tripped' = FALSE /\ driven' = driven
    BY <1>2 DEF E!ClearFault
  <2>2. etb' \in T3 /\ etb'.implausible = 0 /\ etb'.error_timer = 0 /\ etb'.fault = None
    BY <2>1
  <2>3. driven' \in BOOLEAN /\ tripped' \in BOOLEAN /\ ~tripped'
    BY <2>1 DEF ThrottleInv
  <2>4. apart' \in 0 .. Count /\ astray' \in 0 .. Timeout /\ apart' < Count /\ astray' < Timeout
    BY <2>1, GuardNumbers
  <2> QED BY <2>1, <2>2, <2>3, <2>4, Zenon DEF ThrottleInv
<1>3. ASSUME NEW second \in {"agrees", "differs", None}, NEW off \in BOOLEAN, NEW dt \in Updates,
             E!UpdateThrottle(second, off, dt)
      PROVE  ThrottleInv'
  <2> DEFINE e == E!Compare(etb, second)
             t == etb.error_timer + E!Counted(dt)
  <2>1. dt \in Nat /\ E!Counted(dt) \in Nat
    BY GuardNumbers DEF E!Counted, E!Least
  \* The first half: the count of samples that disagree.
  <2>2. /\ e \in T3 /\ e.error_timer = etb.error_timer
        /\ apart' \in 0 .. Count
        /\ etb.fault # None => e.fault # None
        /\ etb.fault = None => /\ e.fault # None <=> apart' = Count
                               /\ e.fault = None => e.implausible = apart'
    <3>1. CASE second = None
      <4>1. e = etb /\ apart' = apart
        BY <1>3, <3>1, GuardNumbers DEF E!Compare, E!UpdateThrottle
      <4> HIDE DEF e
      <4>2. etb.fault = None => etb.implausible = apart /\ apart # Count
        BY <1>1, GuardNumbers DEF ThrottleInv
      <4> QED BY <1>1, <4>1, <4>2
    <3>2. CASE second = "agrees"
      <4>1. e = [etb EXCEPT !.implausible = 0] /\ apart' = 0
        BY <1>3, <3>2, GuardNumbers DEF E!Compare, E!UpdateThrottle
      <4> QED BY <1>1, <4>1, GuardNumbers
    <3>3. CASE second = "differs"
      <4> DEFINE n == E!Least(etb.implausible + 1, 255)
      <4>1. e = [etb EXCEPT !.implausible = n, !.fault = IF n >= Count THEN "TpsImplausible" ELSE @]
            /\ apart' = E!Least(apart + 1, Count)
        BY <1>3, <3>3, GuardNumbers DEF E!Compare, E!UpdateThrottle
      <4>2. n \in Nat /\ (etb.fault = None => (n >= Count <=> apart' = Count) /\ (n < Count => n = apart'))
            /\ apart' \in 0 .. Count
        BY <1>1, <4>1, GuardNumbers DEF E!Least, ThrottleInv
      <4> HIDE DEF n, e
      <4>3. CASE n >= Count
        <5>1. e = [[etb EXCEPT !.implausible = n] EXCEPT !.fault = "TpsImplausible"]
          BY <4>1, <4>3
        <5>2. e \in T3 /\ e.error_timer = etb.error_timer /\ e.fault = "TpsImplausible"
          BY <1>1, <4>2, <5>1
        <5> QED BY <4>2, <4>3, <5>2, GuardNumbers
      <4>4. CASE ~(n >= Count)
        <5>1. e = [etb EXCEPT !.implausible = n]
          BY <1>1, <4>1, <4>4
        <5>2. e \in T3 /\ e.error_timer = etb.error_timer /\ e.fault = etb.fault /\ e.implausible = n
          BY <1>1, <4>2, <5>1
        <5>3. etb.fault = None => apart' # Count /\ n = apart'
          BY <4>2, <4>4, GuardNumbers
        <5> QED BY <4>2, <5>2, <5>3
      <4> QED BY <4>3, <4>4
    <3> QED BY <3>1, <3>2, <3>3
  <2> HIDE DEF e
  <2>3. /\ etb' = E!Follow(e, off, dt) /\ driven' = (etb'.fault = None)
        /\ astray' = (IF off THEN E!Least(astray + E!Counted(dt), Timeout) ELSE 0)
        /\ tripped' = (tripped \/ apart' = Count \/ astray' = Timeout)
    BY <1>3 DEF E!UpdateThrottle, e
  <2>4. astray' \in 0 .. Timeout /\ tripped' \in BOOLEAN /\ driven' \in BOOLEAN
    BY <1>1, <2>1, <2>3, GuardNumbers DEF E!Least, ThrottleInv
  <2>5. CASE e.fault # None
    BY <1>1, <2>2, <2>3, <2>4, <2>5, GuardNumbers DEF E!Follow, ThrottleInv
  <2>6. CASE e.fault = None
    <3>1. etb.fault = None /\ ~tripped /\ apart' < Count /\ e.implausible = apart'
          /\ e.error_timer = astray /\ astray < Timeout
      BY <1>1, <2>2, <2>6, GuardNumbers DEF ThrottleInv
    <3>2. CASE ~off
      <4>1. etb' = [e EXCEPT !.error_timer = 0] /\ astray' = 0
        BY <2>3, <2>6, <3>2 DEF E!Follow
      <4> QED BY <2>2, <2>3, <2>4, <2>6, <3>1, <4>1, GuardNumbers DEF ThrottleInv
    <3>3. CASE off
      <4> DEFINE s == astray + E!Counted(dt)
      <4>1. etb' = [e EXCEPT !.error_timer = s, !.fault = IF s >= Timeout THEN "PositionTimeout" ELSE None]
        BY <2>3, <2>6, <3>1, <3>3 DEF E!Follow
      <4>2. s \in Nat /\ astray' = (IF s < Timeout THEN s ELSE Timeout) /\ apart' # Count
        BY <1>1, <2>1, <2>2, <2>3, <3>1, <3>3, GuardNumbers DEF E!Least
      <4> HIDE DEF s
      <4>3. etb' \in T3 /\ etb'.implausible = apart' /\ etb'.error_timer = s
            /\ etb'.fault = IF s >= Timeout THEN "PositionTimeout" ELSE None
        BY <2>2, <3>1, <4>1, <4>2
      <4> QED BY <2>2, <2>3, <2>4, <3>1, <4>2, <4>3, GuardNumbers DEF ThrottleInv
    <3> QED BY <3>2, <3>3
  <2> QED BY <2>5, <2>6
<1>4. ASSUME UNCHANGED E!etbVars PROVE ThrottleInv'
  BY <1>4 DEF E!etbVars, ThrottleInv
<1>5. ASSUME NEW engine_running \in BOOLEAN, NEW dt \in Updates, E!UpdateHeater(engine_running, dt)
      PROVE  ThrottleInv'
  BY <1>4, <1>5 DEF E!UpdateHeater
<1>6. CASE UNCHANGED guardVars
  BY <1>4, <1>6 DEF guardVars, E!etbVars
<1> QED BY <1>2, <1>3, <1>5, <1>6 DEF E!Next

LEMMA HeaterStep ==
    ASSUME HeaterInv, E!Next \/ UNCHANGED guardVars
    PROVE  HeaterInv'
<1> DEFINE Phases == {"Off", "Condensation", "Ramp", "Hold"}
           H3 == [phase : Phases, elapsed : Nat, volts : Nat]
<1>1. heater \in H3 /\ turned \in Nat /\ heater.elapsed <= turned
  BY DEF HeaterInv
<1>2. ASSUME NEW engine_running \in BOOLEAN, NEW dt \in Updates, E!UpdateHeater(engine_running, dt)
      PROVE  HeaterInv'
  <2> DEFINE c == E!Least(heater.elapsed + E!Counted(dt), Dry)
             t == [heater EXCEPT !.elapsed = c]
  <2>1. dt \in Nat /\ c \in Nat /\ c <= Dry /\ c <= E!Least(turned + dt, Dry) /\ E!Least(turned + dt, Dry) \in Nat
        /\ (turned >= Dry => E!Least(turned + dt, Dry) >= Dry)
    BY <1>1, GuardNumbers DEF E!Counted, E!Least
  <2> HIDE DEF c
  <2>2. t \in H3 /\ t.elapsed = c /\ t.volts = heater.volts /\ t.phase = heater.phase
    BY <1>1, <2>1
  <2>3. CASE ~engine_running
    BY <1>2, <2>3, GuardNumbers DEF E!UpdateHeater, HeaterInv, E!Warm
  <2>4. CASE engine_running
    <3>1. heater' = E!Heat(heater, dt) /\ turned' = IF heater.phase # "Off" THEN E!Least(turned + dt, Dry) ELSE 0
      BY <1>2, <2>4 DEF E!UpdateHeater
    <3>2. CASE heater.phase = "Off"
      BY <3>1, <3>2, GuardNumbers DEF E!Heat, HeaterInv, E!Warm
    <3>3. CASE heater.phase = "Condensation"
      <4>1. heater' = [t EXCEPT !.volts = E!Warm, !.phase = IF t.elapsed >= Dry THEN "Ramp" ELSE @]
        BY <3>1, <3>3 DEF E!Heat, c
      <4> HIDE DEF t
      <4>2. heater' \in H3 /\ heater'.elapsed = c /\ heater'.volts = E!Warm
            /\ heater'.phase = IF c >= Dry THEN "Ramp" ELSE "Condensation"
        BY <2>2, <3>3, <4>1 DEF E!Warm
      <4> QED BY <2>1, <3>1, <3>3, <4>2, GuardNumbers DEF HeaterInv, E!Warm
    <3>4. CASE heater.phase = "Ramp"
      <4> DEFINE v == E!Least(heater.volts + 1, E!Hot)
      <4>1. heater' = [t EXCEPT !.volts = v, !.phase = IF t.volts + 1 >= E!Hot THEN "Hold" ELSE @]
        BY <3>1, <3>4 DEF E!Heat, c
      <4>2. v \in Nat
        BY <1>1, GuardNumbers DEF E!Least, E!Hot, E!Warm
      <4> HIDE DEF t, v
      <4>3. heater' \in H3 /\ heater'.elapsed = c /\ heater'.phase \in {"Ramp", "Hold"}
        BY <2>2, <3>4, <4>1, <4>2
      <4> QED BY <2>1, <3>1, <3>4, <4>3, GuardNumbers DEF HeaterInv
    <3>5. CASE heater.phase = "Hold"
      <4>1. heater' = [t EXCEPT !.volts = E!Hot]
        BY <3>1, <3>5 DEF E!Heat, c
      <4>2. E!Hot \in Nat
        BY GuardNumbers DEF E!Hot, E!Warm
      <4> HIDE DEF t
      <4>3. heater' \in H3 /\ heater'.elapsed = c /\ heater'.phase = "Hold"
        BY <2>2, <3>5, <4>1, <4>2
      <4> QED BY <2>1, <3>1, <3>5, <4>3, GuardNumbers DEF HeaterInv
    <3> QED BY <1>1, <3>2, <3>3, <3>4, <3>5
  <2> QED BY <2>3, <2>4
<1>3. ASSUME UNCHANGED E!heaterVars PROVE HeaterInv'
  BY <1>3 DEF E!heaterVars, HeaterInv
<1>4. CASE UNCHANGED guardVars
  BY <1>3, <1>4 DEF guardVars, E!heaterVars
<1> QED BY <1>2, <1>3, <1>4 DEF E!Next, E!ClearFault, E!UpdateThrottle

LEMMA GuardInit == PartsInit => ThrottleInv /\ HeaterInv
<1> SUFFICES ASSUME PartsInit PROVE ThrottleInv /\ HeaterInv
  OBVIOUS
<1>1. /\ etb = [implausible |-> 0, error_timer |-> 0, fault |-> None] /\ apart = 0 /\ astray = 0
      /\ tripped = FALSE /\ driven = FALSE
      /\ heater = [phase |-> "Off", elapsed |-> 0, volts |-> 0] /\ turned = 0
  BY DEF PartsInit, E!Init
<1>2. ThrottleInv
  <2>1. /\ etb \in [implausible : Nat, error_timer : Nat, fault : {None, "TpsImplausible", "PositionTimeout"}]
        /\ etb.implausible = 0 /\ etb.error_timer = 0 /\ etb.fault = None
    BY <1>1
  <2>2. apart \in 0 .. Count /\ astray \in 0 .. Timeout /\ apart < Count /\ astray < Timeout
    BY <1>1, GuardNumbers
  <2>3. driven \in BOOLEAN /\ tripped \in BOOLEAN /\ ~tripped
    BY <1>1
  <2> QED BY <1>1, <2>1, <2>2, <2>3, Zenon DEF ThrottleInv
<1>3. HeaterInv
  BY <1>1, GuardNumbers DEF HeaterInv, E!Warm
<1> QED BY <1>2, <1>3

LEMMA GuardsOK == ThrottleInv /\ HeaterInv => E!GuardsHold
<1>1. ThrottleInv => E!FaultStopsMotor
  BY DEF ThrottleInv, E!FaultStopsMotor
<1>2. HeaterInv => E!DryBeforeHot
  BY GuardNumbers DEF HeaterInv, E!DryBeforeHot, E!Warm
<1> QED BY <1>1, <1>2 DEF E!GuardsHold

\* The throttle falls back after its count of implausible readings or its time astray and not before,
\* and the heater warms up in its order and by its ramp (etb.rs, heater.rs).
THEOREM ThrottleAndHeaterGuard == PartsSpec => [](E!GuardsHold)
<1> DEFINE Inv == ThrottleInv /\ HeaterInv
<1>1. PartsInit => Inv
  BY GuardInit
<1>2. Inv /\ [PartsNext]_allVars => Inv'
  BY ThrottleStep, HeaterStep, PartsAreApart
<1>3. Inv => E!GuardsHold
  BY GuardsOK
<1> HIDE DEF Inv
<1> QED
  BY <1>1, <1>2, <1>3, PTL DEF PartsSpec

----------------------------------------------------------------------------
(* Torque cuts.                                                            *)

LEMMA CutNumbers ==
    /\ MaxDwell \in Nat \ {0} /\ MaxRetard \in Nat /\ Rate \in Nat /\ LongestStep \in Nat
    /\ Hundred \in Nat \ {0} /\ Turns \in Nat /\ MaxSparks \in Nat \ {0} /\ Threshold \in Nat \ {0}
    /\ Updates \subseteq Nat
BY PartsAssumption DEF T!Parameters

LEMMA PairOfCuts ==
    ASSUME NEW a \in Int, NEW b \in Int
    PROVE  /\ T!Min({a, b}) = IF a <= b THEN a ELSE b
           /\ T!Max({a, b}) = IF a >= b THEN a ELSE b
<1>1. (IF a <= b THEN a ELSE b) \in {a, b} /\ \A y \in {a, b} : (IF a <= b THEN a ELSE b) <= y
  OBVIOUS
<1>2. (IF a >= b THEN a ELSE b) \in {a, b} /\ \A y \in {a, b} : (IF a >= b THEN a ELSE b) >= y
  OBVIOUS
<1>3. T!Min({a, b}) \in {a, b} /\ \A y \in {a, b} : T!Min({a, b}) <= y
  BY <1>1, Zenon DEF T!Min
<1>4. T!Max({a, b}) \in {a, b} /\ \A y \in {a, b} : T!Max({a, b}) >= y
  BY <1>2, Zenon DEF T!Max
<1> QED BY <1>3, <1>4

CoilInv == coil \in [charging : BOOLEAN, time : Nat, count : {0, 1}] /\ fired = coil.count /\ coil.time < MaxDwell
LimiterInv == limiter \in BOOLEAN /\ over = limiter
LaunchInv ==
    /\ launch \in [active : BOOLEAN, retard : Nat, fuel_cut : BOOLEAN] /\ launching = launch.active
    /\ launch.fuel_cut => launch.active
KnockInv == knock \in 0 .. MaxRetard /\ knockOwed \in Int /\ knockOwed <= knock
TractionInv ==
    /\ traction \in [retard : 0 .. MaxRetard, spark_cut : BOOLEAN]
    /\ slipOwed \in Int /\ slipOwed <= traction.retard
    /\ traction.spark_cut => traction.retard = MaxRetard

LEMMA CoilStep == CoilInv /\ (T!StartCharge \/ T!EndCharge \/ \E dt \in Updates : T!CheckOverdwell(dt)) => CoilInv'
<1> SUFFICES ASSUME CoilInv PROVE T!StartCharge \/ T!EndCharge \/ (\E dt \in Updates : T!CheckOverdwell(dt)) => CoilInv'
  OBVIOUS
<1>1. coil \in [charging : BOOLEAN, time : Nat, count : {0, 1}] /\ fired = coil.count /\ coil.time < MaxDwell
  BY DEF CoilInv
<1>2. CASE T!StartCharge
  <2>1. coil' = [charging |-> TRUE, time |-> 0, count |-> coil.count] /\ fired' = fired
    BY <1>2 DEF T!StartCharge, T!Uncharged
  <2> QED BY <1>1, <2>1, CutNumbers DEF CoilInv
<1>3. CASE T!EndCharge
  <2>1. coil' = [charging |-> FALSE, time |-> 0, count |-> coil.count] /\ fired' = fired
    BY <1>3 DEF T!EndCharge, T!Uncharged
  <2> QED BY <1>1, <2>1, CutNumbers DEF CoilInv
<1>4. ASSUME NEW dt \in Updates, T!CheckOverdwell(dt) PROVE CoilInv'
  <2>1. CASE coil.time + dt >= MaxDwell
    <3>1. coil' = [charging |-> FALSE, time |-> 0, count |-> (coil.count + 1) % 2] /\ fired' = (fired + 1) % 2
      BY <1>4, <2>1 DEF T!CheckOverdwell, T!Uncharged
    <3>2. (coil.count + 1) % 2 \in {0, 1}
      BY <1>1
    <3> QED BY <1>1, <3>1, <3>2, CutNumbers DEF CoilInv
  <2>2. CASE ~(coil.time + dt >= MaxDwell)
    <3>1. coil' = [coil EXCEPT !.time = coil.time + dt] /\ fired' = fired
      BY <1>4, <2>2 DEF T!CheckOverdwell
    <3>2. coil.time + dt \in Nat /\ coil.time + dt < MaxDwell
      BY <1>1, <2>2, CutNumbers
    <3> QED BY <1>1, <3>1, <3>2 DEF CoilInv
  <2> QED BY <2>1, <2>2
<1> QED BY <1>2, <1>3, <1>4

LEMMA LimiterStep == LimiterInv /\ (T!ResetLimiter \/ \E band \in T!Band : T!UpdateLimiter(band)) => LimiterInv'
<1>1. ASSUME LimiterInv, NEW band \in {"low", "middle", "high"}, T!UpdateLimiter(band) PROVE LimiterInv'
  <2>1. limiter' = (IF limiter THEN band # "low" ELSE band = "high")
        /\ over' = (band = "high" \/ (over /\ band = "middle")) /\ limiter \in BOOLEAN /\ over = limiter
    BY <1>1 DEF T!UpdateLimiter, LimiterInv
  <2>2. CASE limiter
    BY <2>1, <2>2, Zenon DEF LimiterInv
  <2>3. CASE ~limiter
    BY <2>1, <2>3, Zenon DEF LimiterInv
  <2> QED BY <2>2, <2>3
<1> QED BY <1>1 DEF T!ResetLimiter, LimiterInv, T!Band

LEMMA LaunchStep ==
    LaunchInv /\ (T!ResetLaunch \/ \E band \in T!Band, ready, cuts \in BOOLEAN : T!UpdateLaunch(band, ready, cuts))
    => LaunchInv'
<1> DEFINE L3 == [active : BOOLEAN, retard : Nat, fuel_cut : BOOLEAN]
<1>1. ASSUME LaunchInv, NEW band \in {"low", "middle", "high"}, NEW ready \in BOOLEAN, NEW cuts \in BOOLEAN,
             T!UpdateLaunch(band, ready, cuts)
      PROVE  LaunchInv'
  <2>1. launch' = T!Launched(launch, band, ready, cuts)
        /\ launching' = (band # "low" /\ (launching \/ (band = "high" /\ ready)))
        /\ launch \in L3 /\ launching = launch.active /\ (launch.fuel_cut => launch.active)
    BY <1>1 DEF T!UpdateLaunch, LaunchInv
  <2>2. CASE launch.active /\ band = "low"
    <3>1. launch' = T!AtRest /\ launching' = FALSE
      BY <2>1, <2>2 DEF T!Launched
    <3> QED BY <3>1 DEF T!AtRest, LaunchInv
  <2>3. CASE ~launch.active /\ band = "high" /\ ready
    <3>1. launch' = [active |-> TRUE, retard |-> 1, fuel_cut |-> cuts] /\ launching' = TRUE
      BY <2>1, <2>3 DEF T!Launched
    <3> QED BY <3>1 DEF LaunchInv
  <2>4. CASE ~(launch.active /\ band = "low") /\ ~(~launch.active /\ band = "high" /\ ready)
    <3>1. launch' = launch
      BY <2>1, <2>4, Zenon DEF T!Launched
    <3>2. launching' = launching
      BY <2>1, <2>4, Zenon
    <3> QED BY <2>1, <3>1, <3>2 DEF LaunchInv
  <2> QED BY <2>2, <2>3, <2>4
<1>2. ASSUME T!ResetLaunch PROVE LaunchInv'
  <2>1. launch' = [active |-> FALSE, retard |-> 0, fuel_cut |-> FALSE] /\ launching' = FALSE
    BY <1>2 DEF T!ResetLaunch, T!AtRest
  <2> QED BY <2>1 DEF LaunchInv
<1> QED BY <1>1, <1>2 DEF T!Band

LEMMA KnockStep ==
    ASSUME KnockInv, NEW inRange \in BOOLEAN, NEW step \in 0 .. MaxRetard + 1, NEW dt \in Updates,
           T!UpdateKnock(inRange, step, dt)
    PROVE  KnockInv'
<1> DEFINE back == Rate * dt
<1>1. knock \in 0 .. MaxRetard /\ knockOwed \in Int /\ knockOwed <= knock /\ step \in Nat
  BY CutNumbers DEF KnockInv
<1>2. back \in Nat
  BY CutNumbers
<1>3. /\ knock' = IF ~inRange THEN 0 ELSE IF step > 0 THEN T!Min({knock + step, MaxRetard}) ELSE T!Max({knock - back, 0})
      /\ knockOwed' = IF inRange THEN T!Max({T!Min({step, MaxRetard}), knockOwed - back}) ELSE 0
  BY DEF T!UpdateKnock
<1> HIDE DEF back
<1>4. /\ T!Min({knock + step, MaxRetard}) = IF knock + step <= MaxRetard THEN knock + step ELSE MaxRetard
      /\ T!Max({knock - back, 0}) = IF knock - back >= 0 THEN knock - back ELSE 0
      /\ T!Min({step, MaxRetard}) = IF step <= MaxRetard THEN step ELSE MaxRetard
  <2>1. knock + step \in Int /\ MaxRetard \in Int /\ knock - back \in Int /\ 0 \in Int /\ step \in Int
    BY <1>1, <1>2, CutNumbers
  <2> QED BY <2>1, PairOfCuts
<1>5. T!Max({T!Min({step, MaxRetard}), knockOwed - back})
        = IF T!Min({step, MaxRetard}) >= knockOwed - back THEN T!Min({step, MaxRetard}) ELSE knockOwed - back
  <2>1. T!Min({step, MaxRetard}) \in Int /\ knockOwed - back \in Int
    BY <1>1, <1>2, <1>4, CutNumbers
  <2> QED BY <2>1, PairOfCuts
<1>6. CASE ~inRange
  BY <1>3, <1>6, CutNumbers DEF KnockInv
<1>7. CASE inRange /\ step > 0
  BY <1>1, <1>2, <1>3, <1>4, <1>5, <1>7, CutNumbers DEF KnockInv
<1>8. CASE inRange /\ step = 0
  BY <1>1, <1>2, <1>3, <1>4, <1>5, <1>8, CutNumbers DEF KnockInv
<1> QED BY <1>1, <1>6, <1>7, <1>8

LEMMA TractionStep ==
    ASSUME TractionInv, NEW inRange \in BOOLEAN, NEW slip \in 0 .. MaxRetard, NEW dt \in Updates,
           T!UpdateTraction(inRange, slip, dt)
    PROVE  TractionInv'
<1> DEFINE step == T!Min({dt, LongestStep})
           held == traction.retard
           counted == Rate * step
           back == Rate * dt
<1>1. held \in 0 .. MaxRetard /\ slipOwed \in Int /\ slipOwed <= held /\ slip \in Nat /\ dt \in Nat
  BY CutNumbers DEF TractionInv
<1>2. step \in Nat /\ step <= dt
  BY <1>1, CutNumbers, PairOfCuts
<1>3. counted \in Nat /\ back \in Nat /\ counted <= back
  <2> HIDE DEF step
  <2>1. \A a, b, r \in Nat : a <= b => r * a \in Nat /\ r * b \in Nat /\ r * a <= r * b
    OBVIOUS
  <2> QED BY <1>1, <1>2, <2>1, CutNumbers
<1>4. /\ traction' = IF ~inRange THEN [retard |-> 0, spark_cut |-> FALSE]
                     ELSE [retard |-> IF slip > 0 THEN T!Max({held, slip}) ELSE T!Max({held - counted, 0}),
                           spark_cut |-> slip = MaxRetard]
      /\ slipOwed' = IF inRange THEN T!Max({slip, slipOwed - back}) ELSE 0
  BY DEF T!UpdateTraction
<1> HIDE DEF step, held, counted, back
<1>5. /\ T!Max({held, slip}) = IF held >= slip THEN held ELSE slip
      /\ T!Max({held - counted, 0}) = IF held - counted >= 0 THEN held - counted ELSE 0
      /\ T!Max({slip, slipOwed - back}) = IF slip >= slipOwed - back THEN slip ELSE slipOwed - back
  <2>1. held \in Int /\ slip \in Int /\ held - counted \in Int /\ 0 \in Int /\ slipOwed - back \in Int
    BY <1>1, <1>3, CutNumbers
  <2> QED BY <2>1, PairOfCuts
<1>6. CASE ~inRange
  BY <1>4, <1>6, CutNumbers DEF TractionInv
<1>7. CASE inRange
  <2> DEFINE r == IF slip > 0 THEN T!Max({held, slip}) ELSE T!Max({held - counted, 0})
  <2>1. traction' = [retard |-> r, spark_cut |-> slip = MaxRetard] /\ slipOwed' = T!Max({slip, slipOwed - back})
    BY <1>4, <1>7
  <2>2. /\ r \in 0 .. MaxRetard /\ T!Max({slip, slipOwed - back}) \in Int /\ T!Max({slip, slipOwed - back}) <= r
        /\ slip = MaxRetard => r = MaxRetard
    BY <1>1, <1>3, <1>5, CutNumbers
  <2> HIDE DEF r
  <2> QED BY <2>1, <2>2 DEF TractionInv
<1> QED BY <1>6, <1>7

LEMMA CutsStep ==
    ASSUME CoilInv, LimiterInv, LaunchInv, KnockInv, TractionInv, T!Next \/ UNCHANGED cutVars
    PROVE  CoilInv' /\ LimiterInv' /\ LaunchInv' /\ KnockInv' /\ TractionInv'
<1>1. /\ UNCHANGED T!coilVars => CoilInv'
      /\ UNCHANGED T!limiterVars => LimiterInv'
      /\ UNCHANGED T!launchVars => LaunchInv'
      /\ UNCHANGED T!knockVars => KnockInv'
      /\ UNCHANGED T!tractionVars => TractionInv'
  BY DEF CoilInv, LimiterInv, LaunchInv, KnockInv, TractionInv,
         T!coilVars, T!limiterVars, T!launchVars, T!knockVars, T!tractionVars
<1>2. CASE UNCHANGED cutVars
  BY <1>1, <1>2 DEF cutVars, T!coilVars, T!limiterVars, T!launchVars, T!knockVars, T!tractionVars
<1>3. CASE (T!StartCharge \/ T!EndCharge \/ \E dt \in Updates : T!CheckOverdwell(dt))
           /\ UNCHANGED <<T!limiterVars, T!launchVars, T!knockVars, T!tractionVars>>
  BY <1>1, <1>3, CoilStep
<1>4. CASE (T!ResetLimiter \/ \E band \in T!Band : T!UpdateLimiter(band))
           /\ UNCHANGED <<T!coilVars, T!launchVars, T!knockVars, T!tractionVars>>
  BY <1>1, <1>4, LimiterStep
<1>5. CASE (T!ResetLaunch \/ \E band \in T!Band, ready, cuts \in BOOLEAN : T!UpdateLaunch(band, ready, cuts))
           /\ UNCHANGED <<T!coilVars, T!limiterVars, T!knockVars, T!tractionVars>>
  BY <1>1, <1>5, LaunchStep
<1>6. ASSUME NEW inRange \in BOOLEAN, NEW step \in 0 .. MaxRetard + 1, NEW dt \in Updates,
             T!UpdateKnock(inRange, step, dt) /\ UNCHANGED <<T!coilVars, T!limiterVars, T!launchVars, T!tractionVars>>
      PROVE  CoilInv' /\ LimiterInv' /\ LaunchInv' /\ KnockInv' /\ TractionInv'
  BY <1>1, <1>6, KnockStep
<1>7. ASSUME NEW inRange \in BOOLEAN, NEW slip \in 0 .. MaxRetard, NEW dt \in Updates,
             T!UpdateTraction(inRange, slip, dt) /\ UNCHANGED <<T!coilVars, T!limiterVars, T!launchVars, T!knockVars>>
      PROVE  CoilInv' /\ LimiterInv' /\ LaunchInv' /\ KnockInv' /\ TractionInv'
  BY <1>1, <1>7, TractionStep
<1> QED BY <1>2, <1>3, <1>4, <1>5, <1>6, <1>7 DEF T!Next

LEMMA CutsInit == PartsInit => CoilInv /\ LimiterInv /\ LaunchInv /\ KnockInv /\ TractionInv
<1> SUFFICES ASSUME T!Init PROVE CoilInv /\ LimiterInv /\ LaunchInv /\ KnockInv /\ TractionInv
  BY DEF PartsInit
<1>1. CoilInv
  BY CutNumbers DEF T!Init, CoilInv, T!Uncharged
<1>2. LimiterInv /\ LaunchInv
  BY DEF T!Init, LimiterInv, LaunchInv, T!AtRest
<1>3. KnockInv /\ TractionInv
  BY CutNumbers DEF T!Init, KnockInv, TractionInv
<1> QED BY <1>1, <1>2, <1>3

LEMMA RemainderIs ==
    ASSUME NEW W \in Nat \ {0}, NEW a \in Int, NEW q \in Int, NEW r \in 0 .. W - 1, a = W * q + r
    PROVE  a % W = r
<1> DEFINE p == a \div W  s == a % W
<1>1. p \in Int /\ s \in 0 .. W - 1 /\ a = W * p + s
  OBVIOUS
<1> HIDE DEF p, s
<1>2. W * p + s = W * q + r
  BY <1>1
<1>3. CASE p > q
  <2>1. PICK d \in Nat : d > 0 /\ p = q + d
    <3>1. p - q \in Nat /\ p - q > 0 /\ p = q + (p - q)
      BY <1>1, <1>3
    <3> QED BY <3>1
  <2>2. W * p = W * q + W * d /\ W * d >= W /\ W * q \in Int /\ W * d \in Int
    BY <2>1
  <2> QED BY <1>1, <1>2, <2>2
<1>4. CASE q > p
  <2>1. PICK d \in Nat : d > 0 /\ q = p + d
    <3>1. q - p \in Nat /\ q - p > 0 /\ q = p + (q - p)
      BY <1>1, <1>4
    <3> QED BY <3>1
  <2>2. W * q = W * p + W * d /\ W * d >= W /\ W * p \in Int /\ W * d \in Int
    BY <1>1, <2>1
  <2> QED BY <1>1, <1>2, <2>2
<1>5. CASE p = q
  <2>1. W * p \in Int
    BY <1>1
  <2> QED BY <1>1, <1>2, <1>5, <2>1 DEF s
<1> QED BY <1>1, <1>3, <1>4, <1>5

LEMMA SameCardinalityT == \A X : T!Cardinality(X) = Cardinality(X)
BY DEF T!Cardinality, Cardinality

\* Of a row of consecutive numbers as long as the divisor each remainder occurs once.
LEMMA SoftCut == T!SoftCutKeepsRate
<1> SUFFICES ASSUME NEW n \in 0 .. Turns - Hundred - 1, NEW t \in 0 .. Hundred
             PROVE  T!Cardinality({k \in 1 .. Hundred : T!ShouldCut(n + k, t)}) = t
  BY DEF T!SoftCutKeepsRate
<1> DEFINE H == Hundred
           m == n % H
           S == {k \in 1 .. H : T!ShouldCut(n + k, t)}
           f == [r \in 0 .. t - 1 |-> IF r > m THEN r - m ELSE r + H - m]
<1>1. H \in Nat \ {0} /\ n \in Nat /\ t \in 0 .. H /\ t \in Nat
  BY CutNumbers
<1>2. PICK q \in Int : n = H * q + m /\ m \in 0 .. H - 1
  <2>1. n \in Int /\ H \in Nat \ {0}
    BY <1>1
  <2> HIDE DEF H
  <2>2. n \div H \in Int /\ n = H * (n \div H) + (n % H) /\ n % H \in 0 .. H - 1
    BY <2>1
  <2> QED BY <2>2
<1> HIDE DEF m, H
<1>3. ASSUME NEW k \in 1 .. H
      PROVE  (n + k) % H = IF m + k < H THEN m + k ELSE m + k - H
  <2>1. CASE m + k < H
    <3>1. m + k \in 0 .. H - 1 /\ n + k = H * q + (m + k) /\ n + k \in Int
      <4>1. H * q \in Int
        BY <1>1
      <4> QED BY <1>1, <1>2, <2>1, <4>1
    <3> QED BY <1>1, <2>1, <3>1, RemainderIs
  <2>2. CASE ~(m + k < H)
    <3>1. m + k - H \in 0 .. H - 1 /\ n + k = H * (q + 1) + (m + k - H) /\ n + k \in Int /\ q + 1 \in Int
      <4>1. H * q \in Int /\ H * (q + 1) = H * q + H
        BY <1>1
      <4> QED BY <1>1, <1>2, <2>2, <4>1
    <3> QED BY <1>1, <2>2, <3>1, RemainderIs
  <2> QED BY <2>1, <2>2
<1>4. S = {k \in 1 .. H : (n + k) % H < t}
  BY DEF T!ShouldCut, H
<1> HIDE DEF S
<1>5. f \in [0 .. t - 1 -> S]
  <2> SUFFICES ASSUME NEW r \in 0 .. t - 1 PROVE (IF r > m THEN r - m ELSE r + H - m) \in S
    OBVIOUS
  <2> DEFINE k == IF r > m THEN r - m ELSE r + H - m
  <2>1. k \in 1 .. H /\ (IF m + k < H THEN m + k ELSE m + k - H) = r /\ r < t
    BY <1>1, <1>2
  <2> HIDE DEF k
  <2>2. (n + k) % H = r
    BY <1>3, <2>1
  <2> QED BY <1>4, <2>1, <2>2 DEF k
<1>6. \A a, b \in 0 .. t - 1 : f[a] = f[b] => a = b
  BY <1>1, <1>2
<1>7. \A k \in S : \E r \in 0 .. t - 1 : f[r] = k
  <2> SUFFICES ASSUME NEW k \in S PROVE \E r \in 0 .. t - 1 : f[r] = k
    OBVIOUS
  <2> DEFINE r == IF m + k < H THEN m + k ELSE m + k - H
  <2>1. k \in 1 .. H /\ (n + k) % H < t
    BY <1>4
  <2>2. r < t
    BY <1>3, <2>1
  <2>3. r \in 0 .. t - 1 /\ (IF r > m THEN r - m ELSE r + H - m) = k
    BY <1>1, <1>2, <2>1, <2>2
  <2> HIDE DEF r
  <2> QED BY <2>3
<1> HIDE DEF f
<1>8. ExistsBijection(0 .. t - 1, S)
  BY <1>5, <1>6, <1>7 DEF ExistsBijection, Bijection, Injection, Surjection, IsInjective
<1>9. IsFiniteSet(0 .. t - 1) /\ Cardinality(0 .. t - 1) = t
  <2>1. 0 \in Int /\ t - 1 \in Int
    BY <1>1
  <2>2. IsFiniteSet(0 .. t - 1) /\ Cardinality(0 .. t - 1) = IF 0 > t - 1 THEN 0 ELSE t - 1 - 0 + 1
    BY <2>1, FS_Interval
  <2> QED BY <1>1, <2>2
<1>10. Cardinality(S) = t
  BY <1>8, <1>9, FS_Bijection
<1> QED BY <1>10, SameCardinalityT DEF S, H

LEMMA SparksFall == T!SparksFallWithSpeed
<1> SUFFICES ASSUME NEW a \in 0 .. Threshold + 1, NEW b \in 0 .. Threshold + 1, a <= b
             PROVE  1 <= T!SparkCount(b) /\ T!SparkCount(b) <= T!SparkCount(a) /\ T!SparkCount(a) <= MaxSparks
  BY DEF T!SparksFallWithSpeed
<1> DEFINE M == MaxSparks - 1
           W == 2 * Threshold
           N3(rpm) == 2 * (Threshold - rpm) * M + Threshold
<1>1. Threshold \in Nat \ {0} /\ M \in Nat /\ MaxSparks = M + 1 /\ a \in Int /\ b \in Int
      /\ a >= 0 /\ b >= 0
  BY CutNumbers
<1>2. W \in Nat \ {0}
  BY <1>1
<1> HIDE DEF M
<1>3. ASSUME NEW rpm \in Int, 0 <= rpm, rpm < Threshold
      PROVE  /\ N3(rpm) \in Int /\ N3(rpm) \div W \in Int
             /\ 0 <= N3(rpm) \div W /\ N3(rpm) \div W <= M
  <2> DEFINE x == 2 * (Threshold - rpm)
  <2>1. x \in Nat /\ x <= W
    BY <1>1, <1>3
  <2> HIDE DEF x
  <2>2. x * M \in Nat /\ x * M <= W * M /\ W * M \in Int
    BY <1>1, <1>2, <2>1
  <2>3. N3(rpm) = x * M + Threshold
    BY DEF x
  <2>4. N3(rpm) \in Int /\ 0 <= N3(rpm) /\ N3(rpm) < W * M + W /\ W * M + W = W * (M + 1)
    BY <1>1, <2>2, <2>3
  <2>5. N3(rpm) \div W \in Int /\ 0 <= N3(rpm) \div W /\ N3(rpm) \div W < M + 1
    <3> DEFINE y == N3(rpm)  q == y \div W
    <3>1. y \in Int /\ 0 <= y /\ y < W * (M + 1)
      BY <2>4
    <3> HIDE DEF y, W
    <3>2. q \in Int /\ W * q <= y /\ y < W * (q + 1)
      BY <1>2, <3>1
    <3> HIDE DEF q
    <3>3. W * q \in Int /\ W * (q + 1) \in Int /\ W * (M + 1) \in Int
      BY <1>1, <1>2, <3>2
    <3>4. W * q < W * (M + 1) /\ 0 < W * (q + 1)
      BY <3>1, <3>2, <3>3
    <3>5. q < M + 1 /\ 0 < q + 1
      BY <1>1, <1>2, <3>2, <3>4
    <3> QED BY <3>2, <3>5 DEF q, y
  <2> QED BY <1>1, <2>4, <2>5
<1> HIDE DEF W
<1>4. ASSUME NEW rpm \in Int, 0 <= rpm
      PROVE  T!SparkCount(rpm) = IF rpm >= Threshold \/ M = 0 THEN 1 ELSE 1 + N3(rpm) \div W
  <2>1. MaxSparks <= 1 <=> M = 0
    BY <1>1
  <2> QED BY <2>1 DEF T!SparkCount, W, M
<1> HIDE DEF N3
<1>5. CASE a >= Threshold \/ M = 0
  BY <1>1, <1>4, <1>5
<1>6. CASE ~(a >= Threshold \/ M = 0) /\ b >= Threshold
  BY <1>1, <1>3, <1>4, <1>6
<1>7. CASE ~(a >= Threshold \/ M = 0) /\ ~(b >= Threshold)
  <2>1. N3(b) <= N3(a)
    <3> DEFINE x == 2 * (Threshold - b)  y == 2 * (Threshold - a)
    <3>1. x \in Nat /\ y \in Nat /\ x <= y
      BY <1>1, <1>7
    <3>2. x * M \in Int /\ y * M \in Int /\ x * M <= y * M
      <4> HIDE DEF x, y
      <4> QED BY <1>1, <3>1
    <3>3. N3(b) = x * M + Threshold /\ N3(a) = y * M + Threshold
      BY DEF N3
    <3> HIDE DEF x, y
    <3> QED BY <1>1, <3>2, <3>3
  <2>2. N3(b) \div W <= N3(a) \div W
    BY <1>1, <1>2, <1>3, <1>7, <2>1, QuotientGrows
  <2> QED BY <1>1, <1>3, <1>4, <1>7, <2>2
<1> QED BY <1>5, <1>6, <1>7

LEMMA CutsOK == CoilInv /\ LimiterInv /\ LaunchInv /\ KnockInv /\ TractionInv => T!CutsHold
<1> SUFFICES ASSUME CoilInv, LimiterInv, LaunchInv, KnockInv, TractionInv PROVE T!CutsHold
  OBVIOUS
<1>1. T!CoilIsSpared
  BY DEF CoilInv, T!CoilIsSpared
<1>2. T!CutsHaveHysteresis
  BY DEF LimiterInv, LaunchInv, T!CutsHaveHysteresis
<1>3. T!TorqueReturnsSlowly
  <2>1. knockOwed <= knock /\ knock <= MaxRetard
    BY CutNumbers DEF KnockInv
  <2>2. slipOwed <= traction.retard /\ traction.retard <= MaxRetard
        /\ (traction.spark_cut => traction.retard = MaxRetard)
    BY CutNumbers DEF TractionInv
  <2> QED BY <2>1, <2>2 DEF T!TorqueReturnsSlowly
<1> QED BY <1>1, <1>2, <1>3, SoftCut, SparksFall DEF T!CutsHold

\* No coil is left on for longer than the dwell allows, the limiter has its hysteresis, and what knock and
\* slip take from the torque is held within its bounds and given back as time goes by (ignition/mod.rs,
\* knock/mod.rs, traction.rs).
THEOREM CutsAreHeld == PartsSpec => [](T!CutsHold)
<1> DEFINE Inv == CoilInv /\ LimiterInv /\ LaunchInv /\ KnockInv /\ TractionInv
<1>1. PartsInit => Inv
  BY CutsInit
<1>2. Inv /\ [PartsNext]_allVars => Inv'
  BY CutsStep, PartsAreApart
<1>3. Inv => T!CutsHold
  BY CutsOK
<1> HIDE DEF Inv
<1> QED
  BY <1>1, <1>2, <1>3, PTL DEF PartsSpec

----------------------------------------------------------------------------
(* Trigger aids.                                                           *)

LEMMA AidNumbers ==
    /\ Present \in Nat /\ Intervals \subseteq Nat /\ MaxTooth \in Nat /\ MinWidth \in Nat
    /\ Stability \in Nat \ {0} /\ Required \in Nat \ {0, 1} /\ Speeds \subseteq Nat \ {0}
BY PartsAssumption DEF A!Parameters

\* In sync the decoder has counted the edges, and full sync has its cam edge.
Durations == Nat \X Nat \X Nat
GmType ==
    [first : BOOLEAN, durations : Durations, count : 0 .. Present + 1,
     sync : {"Unsynced", "CrankSynced", "FullSync"}, phase : BOOLEAN]
GmInv ==
    /\ gm \in GmType /\ cam \in BOOLEAN
    /\ gm.sync # "Unsynced" => gm.count = edges
    /\ gm.sync = "FullSync" => cam

LEMMA NewDecoderOK ==
    /\ A!NewDecoder \in GmType /\ A!NewDecoder.sync = "Unsynced"
BY AidNumbers DEF A!NewDecoder, GmType, Durations

\* What a crank edge makes of the decoder: out of sync, at a sync point, or one tooth further.
LEMMA GmEdge ==
    ASSUME GmInv, NEW rise \in BOOLEAN, NEW interval \in Intervals, A!CrankEdge(rise, interval)
    PROVE  /\ gm' \in GmType
           /\ \/ gm'.sync = "Unsynced"
              \/ gm'.sync = "CrankSynced" /\ gm'.count = 0
              \/ gm'.sync = gm.sync /\ gm'.count = A!Least(gm.count + 1, Present + 1)
<1> DEFINE d == <<IF gm.first THEN 0 ELSE interval, gm.durations[1], gm.durations[2]>>
           more == A!Least(gm.count + 1, Present + 1)
<1>1. gm \in GmType /\ more \in 0 .. Present + 1 /\ d \in Durations
  <2>1. gm \in GmType
    BY DEF GmInv
  <2>2. gm.count \in 0 .. Present + 1 /\ gm.durations \in Durations /\ gm.first \in BOOLEAN
    BY <2>1 DEF GmType
  <2>3. more \in 0 .. Present + 1
    BY <2>2, AidNumbers DEF A!Least
  <2>4. interval \in Nat
    BY AidNumbers
  <2>5. d \in Durations
    BY <2>2, <2>4 DEF Durations
  <2> QED BY <2>1, <2>3, <2>5
<1>2. gm' = IF ~gm.first /\ interval > MaxTooth THEN A!NewDecoder
            ELSE IF ~A!Considered(rise) THEN [gm EXCEPT !.first = FALSE, !.count = more]
            ELSE IF A!IsSyncPoint(d) THEN A!SyncPoint(d) ELSE A!Tooth(d)
  BY DEF A!CrankEdge
<1> HIDE DEF d
<1>3. [gm EXCEPT !.first = FALSE, !.count = more] \in GmType
  BY <1>1 DEF GmType
<1>4. gm.phase \in BOOLEAN /\ gm.sync \in {"Unsynced", "CrankSynced", "FullSync"}
  BY <1>1 DEF GmType
<1> DEFINE Next5(sync, count) == [first |-> FALSE, durations |-> d, count |-> count, sync |-> sync, phase |-> gm.phase]
<1>5. ASSUME NEW sync \in {"Unsynced", "CrankSynced", "FullSync"}, NEW count \in 0 .. Present + 1
      PROVE  Next5(sync, count) \in GmType /\ Next5(sync, count).sync = sync /\ Next5(sync, count).count = count
  BY <1>1, <1>4 DEF GmType
<1>6. A!SyncPoint(d) \in {Next5("Unsynced", 0), Next5("CrankSynced", 0)}
  BY <1>1 DEF A!SyncPoint, GmType
<1>7. A!Tooth(d) \in {Next5("Unsynced", 0), Next5(gm.sync, more)}
  BY <1>1 DEF A!Tooth, GmType
<1>8. 0 \in 0 .. Present + 1
  BY AidNumbers
<1>9. /\ A!SyncPoint(d) \in GmType
      /\ \/ A!SyncPoint(d).sync = "Unsynced"
         \/ A!SyncPoint(d).sync = "CrankSynced" /\ A!SyncPoint(d).count = 0
  <2> HIDE DEF Next5
  <2> QED BY <1>5, <1>6, <1>8
<1>10. /\ A!Tooth(d) \in GmType
       /\ \/ A!Tooth(d).sync = "Unsynced"
          \/ A!Tooth(d).sync = gm.sync /\ A!Tooth(d).count = more
  <2> HIDE DEF Next5, more
  <2> QED BY <1>1, <1>4, <1>5, <1>7, <1>8
<1>11. [gm EXCEPT !.first = FALSE, !.count = more].sync = gm.sync
       /\ [gm EXCEPT !.first = FALSE, !.count = more].count = more
  BY <1>1, SMTT(30) DEF GmType
<1> HIDE DEF more, Next5
<1> QED BY <1>2, <1>3, <1>9, <1>10, <1>11, NewDecoderOK DEF more

LEMMA GmStep ==
    ASSUME GmInv, A!Next \/ UNCHANGED aidVars
    PROVE  GmInv'
<1>1. gm \in GmType /\ cam \in BOOLEAN /\ gm.count \in 0 .. Present + 1
  BY DEF GmInv, GmType
<1>2. ASSUME NEW rise \in BOOLEAN, NEW interval \in Intervals, A!CrankEdge(rise, interval)
      PROVE  GmInv'
  <2> DEFINE lost == gm'.sync = "Unsynced"
             point == ~lost /\ gm'.count = 0
  <2>1. /\ edges' = (IF lost \/ point THEN 0 ELSE A!Least(edges + 1, Present + 1))
        /\ cam' = (cam /\ ~lost /\ ~point)
    BY <1>2 DEF A!CrankEdge
  <2>2. gm' \in GmType /\ cam' \in BOOLEAN
    BY <1>1, <1>2, <2>1, GmEdge
  <2>3. CASE lost
    BY <2>2, <2>3 DEF GmInv
  <2>4. CASE ~lost /\ gm'.sync = "CrankSynced" /\ gm'.count = 0
    BY <2>1, <2>2, <2>4 DEF GmInv
  <2>5. CASE ~lost /\ gm'.sync = gm.sync /\ gm'.count = A!Least(gm.count + 1, Present + 1)
    <3>1. ~point /\ gm'.count # 0
      BY <1>1, <2>5, AidNumbers DEF A!Least
    <3>2. edges' = A!Least(edges + 1, Present + 1) /\ (cam' <=> cam) /\ gm.count = edges
      BY <2>1, <2>5, <3>1 DEF GmInv
    <3>3. gm'.sync = "FullSync" => cam'
      BY <2>5, <3>2 DEF GmInv
    <3> QED BY <2>2, <2>5, <3>2, <3>3 DEF GmInv
  <2> QED BY <1>2, <2>3, <2>4, <2>5, GmEdge
<1>3. ASSUME NEW late \in BOOLEAN, A!CamEdge(late) PROVE GmInv'
  <2>1. /\ gm' = IF late /\ ~gm.first THEN A!NewDecoder
                 ELSE IF gm.sync = "CrankSynced"
                 THEN [gm EXCEPT !.phase = gm.count > Present \div 2, !.sync = "FullSync"] ELSE gm
        /\ cam' = (gm'.sync # "Unsynced")
        /\ edges' = IF gm'.sync = "Unsynced" THEN 0 ELSE edges
    BY <1>3 DEF A!CamEdge
  <2>2. CASE late /\ ~gm.first
    BY <2>1, <2>2, NewDecoderOK DEF GmInv
  <2>3. CASE ~(late /\ ~gm.first) /\ gm.sync = "CrankSynced"
    <3>1. gm' = [first |-> gm.first, durations |-> gm.durations, count |-> gm.count,
                 sync |-> "FullSync", phase |-> gm.count > Present \div 2]
      BY <1>1, <2>1, <2>3 DEF GmType
    <3>2. gm.first \in BOOLEAN /\ gm.durations \in Durations /\ (gm.count > Present \div 2) \in BOOLEAN
      BY <1>1 DEF GmType
    <3>3. gm' \in GmType /\ gm'.sync = "FullSync" /\ gm'.count = gm.count
      BY <1>1, <3>1, <3>2 DEF GmType
    <3> QED BY <2>1, <2>3, <3>3 DEF GmInv
  <2>4. CASE ~(late /\ ~gm.first) /\ gm.sync # "CrankSynced"
    BY <1>1, <2>1, <2>4 DEF GmInv, GmType
  <2> QED BY <2>2, <2>3, <2>4
<1>4. UNCHANGED A!gmVars => GmInv'
  BY DEF A!gmVars, GmInv
<1>5. UNCHANGED aidVars => UNCHANGED A!gmVars
  BY DEF aidVars, A!gmVars
<1> QED BY <1>2, <1>3, <1>4, <1>5 DEF A!Next, A!Sample, A!Update, A!Select

\* The filter has counted as many like samples as there were.
FilterInv ==
    /\ filter \in [raw : BOOLEAN, state : BOOLEAN, stable : 0 .. Stability, age : 0 .. MinWidth]
    /\ steady \in [now : 0 .. Stability, change : 0 .. Stability]
    /\ filter.stable = steady.now /\ steady.change = Stability
    /\ filter.state # filter.raw => steady.now < Stability \/ filter.age < MinWidth

LEMMA FilterStep ==
    ASSUME FilterInv, A!Next \/ UNCHANGED aidVars
    PROVE  FilterInv'
<1> DEFINE F4 == [raw : BOOLEAN, state : BOOLEAN, stable : 0 .. Stability, age : 0 .. MinWidth]
           S2 == [now : 0 .. Stability, change : 0 .. Stability]
<1>1. filter \in F4 /\ steady \in S2 /\ filter.stable = steady.now /\ steady.change = Stability
  BY DEF FilterInv
<1>2. ASSUME NEW raw \in BOOLEAN, NEW gap \in 1 .. 2, A!Sample(raw, gap) PROVE FilterInv'
  <2> DEFINE age == A!Least(filter.age + gap, MinWidth)
             f == [filter EXCEPT !.age = age]
             stable == A!Least(filter.stable + 1, Stability)
             now3 == IF raw = filter.raw THEN A!Least(steady.now + 1, Stability) ELSE 0
  <2>1. age \in 0 .. MinWidth /\ stable \in 0 .. Stability /\ now3 \in 0 .. Stability
    BY <1>1, AidNumbers DEF A!Least
  <2>2. /\ filter' = IF raw # f.raw THEN [f EXCEPT !.raw = raw, !.stable = 0]
                     ELSE IF stable >= Stability /\ raw # f.state /\ f.age >= MinWidth
                     THEN [f EXCEPT !.stable = stable, !.state = raw, !.age = 0]
                     ELSE [f EXCEPT !.stable = stable]
        /\ steady' = [now |-> now3, change |-> IF filter'.state # filter.state THEN now3 ELSE steady.change]
    <3>1. f.stable = filter.stable
      BY <1>1
    <3> QED BY <1>2, <3>1 DEF A!Sample, A!Filtered
  <2> HIDE DEF age
  <2>3. f \in F4 /\ f.raw = filter.raw /\ f.state = filter.state /\ f.age = age
    BY <1>1, <2>1
  <2> HIDE DEF f
  <2>4. CASE raw # filter.raw
    <3>1. filter' = [raw |-> raw, state |-> filter.state, stable |-> 0, age |-> age] /\ now3 = 0
      BY <2>2, <2>3, <2>4
    <3>2. filter' \in F4 /\ filter'.stable = 0 /\ filter'.state = filter.state
      BY <1>1, <2>1, <3>1, AidNumbers
    <3>3. steady' = [now |-> 0, change |-> Stability]
      BY <1>1, <2>2, <3>1, <3>2
    <3> QED BY <3>2, <3>3, AidNumbers DEF FilterInv
  <2>5. CASE raw = filter.raw /\ stable >= Stability /\ raw # filter.state /\ age >= MinWidth
    <3>1. filter' = [raw |-> raw, state |-> raw, stable |-> stable, age |-> 0]
      BY <2>2, <2>3, <2>5
    <3>2. filter' \in F4 /\ filter'.stable = stable /\ filter'.state = raw /\ filter'.raw = raw
      BY <2>1, <3>1, AidNumbers
    <3>3. now3 = stable /\ stable = Stability
      BY <1>1, <2>1, <2>5
    <3>4. steady' = [now |-> Stability, change |-> Stability]
      BY <2>2, <2>5, <3>2, <3>3
    <3> QED BY <3>2, <3>3, <3>4, AidNumbers DEF FilterInv
  <2>6. CASE raw = filter.raw /\ ~(stable >= Stability /\ raw # filter.state /\ age >= MinWidth)
    <3>1. filter' = [f EXCEPT !.stable = stable]
      BY <2>2, <2>3, <2>6
    <3>2. filter' \in F4 /\ filter'.stable = stable /\ filter'.state = filter.state /\ filter'.raw = raw
          /\ filter'.age = age
      BY <2>1, <2>3, <2>6, <3>1
    <3>3. now3 = stable
      BY <1>1, <2>6
    <3>4. steady' = [now |-> stable, change |-> Stability]
      BY <1>1, <2>2, <3>2, <3>3
    <3>5. steady' \in S2 /\ steady'.now = stable /\ steady'.change = Stability
      BY <2>1, <3>4, AidNumbers
    <3>6. filter'.state # filter'.raw => stable < Stability \/ age < MinWidth
      BY <2>1, <2>6, <3>2, AidNumbers
    <3> QED BY <3>2, <3>5, <3>6 DEF FilterInv
  <2> QED BY <2>4, <2>5, <2>6
<1>3. UNCHANGED A!filterVars => FilterInv'
  BY DEF A!filterVars, FilterInv
<1>4. UNCHANGED aidVars => UNCHANGED A!filterVars
  BY SMTT(30) DEF aidVars, A!filterVars
<1> QED BY <1>2, <1>3, <1>4 DEF A!Next, A!CrankEdge, A!CamEdge, A!Update, A!Select

\* The selector has counted the cycles in full sync.
ModeInv ==
    /\ injection \in [mode : {"Simultaneous", "Grouped", "Sequential"}, cycles : 0 .. Required]
    /\ injection.cycles = synced
    /\ injection.mode = "Sequential" <=> synced = Required
    /\ injection.mode = "Grouped" => synced >= Required \div 2
    /\ injection.mode = "Simultaneous" => synced < Required \div 2

LEMMA ModeStep ==
    ASSUME ModeInv, A!Next \/ UNCHANGED aidVars
    PROVE  ModeInv'
<1> DEFINE I2 == [mode : {"Simultaneous", "Grouped", "Sequential"}, cycles : 0 .. Required]
           half == Required \div 2
<1>1. injection \in I2 /\ injection.cycles = synced /\ synced \in 0 .. Required
  BY DEF ModeInv
<1>2. half \in Nat /\ half > 0 /\ half < Required
  BY AidNumbers
<1>3. ASSUME NEW full \in BOOLEAN, A!Select(full) PROVE ModeInv'
  <2>1. CASE ~full
    <3>1. injection' = [mode |-> "Simultaneous", cycles |-> 0] /\ synced' = 0
      BY <1>3, <2>1 DEF A!Select
    <3> QED BY <1>2, <3>1, AidNumbers DEF ModeInv
  <2>2. CASE full
    <3> DEFINE c == A!Least(synced + 1, Required)
               m == IF c >= Required THEN "Sequential" ELSE IF c >= half THEN "Grouped" ELSE injection.mode
    <3>1. injection' = [cycles |-> c, mode |-> m] /\ synced' = c
      BY <1>1, <1>3, <2>2 DEF A!Select
    <3>2. c \in 0 .. Required /\ c >= synced
      BY <1>1, AidNumbers DEF A!Least
    <3> HIDE DEF c, half
    <3>3. c < half => injection.mode = "Simultaneous"
      BY <1>1, <1>2, <3>2, AidNumbers DEF ModeInv, half
    <3>4. /\ m \in {"Simultaneous", "Grouped", "Sequential"}
          /\ m = "Sequential" <=> c = Required
          /\ m = "Grouped" => c >= half
          /\ m = "Simultaneous" => c < half
      BY <1>2, <3>2, <3>3, AidNumbers
    <3> HIDE DEF m
    <3> QED BY <3>1, <3>2, <3>4 DEF ModeInv, half
  <2> QED BY <2>1, <2>2
<1>4. UNCHANGED A!modeVars => ModeInv'
  BY DEF A!modeVars, ModeInv
<1>5. UNCHANGED aidVars => UNCHANGED A!modeVars
  BY SMTT(30) DEF aidVars, A!modeVars
<1> QED BY <1>3, <1>4, <1>5 DEF A!Next, A!CrankEdge, A!CamEdge, A!Update, A!Sample
\* Place i of the ring is where the tooth before j others is, if idx is where the next one goes.
Place(idx, j) == IF idx < j THEN idx - j + 5 ELSE idx - j + 1

RingInv ==
    /\ ring \in [rpm : [1 .. 4 -> Nat], idx : 0 .. 3, smoothed : Int]
    /\ teeth \in Seq(Nat \ {0}) /\ Len(teeth) <= 4
    /\ \A j \in 1 .. Len(teeth) : ring.rpm[Place(ring.idx, j)] = teeth[j]
    /\ teeth # <<>> => ring.smoothed = A!Sum4(ring.rpm)

LEMMA RingStep ==
    ASSUME RingInv, A!Next \/ UNCHANGED aidVars
    PROVE  RingInv'
<1>1. /\ ring \in [rpm : [1 .. 4 -> Nat], idx : 0 .. 3, smoothed : Int]
      /\ teeth \in Seq(Nat \ {0}) /\ Len(teeth) \in 0 .. 4
      /\ ring.rpm \in [1 .. 4 -> Nat] /\ ring.idx \in 0 .. 3
      /\ \A j \in 1 .. Len(teeth) : ring.rpm[Place(ring.idx, j)] = teeth[j]
  <2>1. ring \in [rpm : [1 .. 4 -> Nat], idx : 0 .. 3, smoothed : Int]
        /\ teeth \in Seq(Nat \ {0}) /\ Len(teeth) <= 4
        /\ \A j \in 1 .. Len(teeth) : ring.rpm[Place(ring.idx, j)] = teeth[j]
    BY DEF RingInv
  <2>2. ring.rpm \in [1 .. 4 -> Nat] /\ ring.idx \in 0 .. 3
    BY <2>1
  <2>3. Len(teeth) \in 0 .. 4
    <3>1. teeth \in Seq(Nat \ {0}) /\ Len(teeth) <= 4
      BY <2>1
    <3>2. Len(teeth) \in Nat
      BY <3>1, LenProperties
    <3>3. \A n \in Nat : n <= 4 => n \in 0 .. 4
      OBVIOUS
    <3> QED BY <3>1, <3>2, <3>3, Zenon
  <2> QED BY <2>1, <2>2, <2>3
<1>2. UNCHANGED A!ringVars => RingInv'
  BY DEF A!ringVars, RingInv
<1>3. ASSUME NEW v \in Speeds \cup {0}, A!Update(v) PROVE RingInv'
  <2>1. CASE v = 0
    BY <1>2, <1>3, <2>1 DEF A!Update
  <2>2. CASE v # 0
    <3> DEFINE i == ring.idx
               now4 == [ring.rpm EXCEPT ![i + 1] = v]
               n == Len(teeth)
               all == <<v>> \o teeth
               more == A!Least(n + 1, 4)
    <3>1. v \in Nat \ {0} /\ i \in 0 .. 3 /\ n \in 0 .. 4
      BY <1>1, <2>2, AidNumbers
    <3>2. ring' = [rpm |-> now4, idx |-> (i + 1) % 4, smoothed |-> A!Sum4(now4)] /\ teeth' = SubSeq(all, 1, more)
      BY <1>3, <2>2 DEF A!Update
    <3>3. /\ now4 \in [1 .. 4 -> Nat] /\ now4[i + 1] = v
          /\ \A k \in 1 .. 4 : k # i + 1 => now4[k] = ring.rpm[k]
      BY <1>1, <3>1
    <3>4. A!Sum4(now4) \in Int
      <4> HIDE DEF now4
      <4> QED BY <3>3 DEF A!Sum4
    <3>5. (i + 1) % 4 = (IF i = 3 THEN 0 ELSE i + 1)
      BY <3>1
    <3>6. all \in Seq(Nat \ {0}) /\ Len(all) = n + 1 /\ all[1] = v /\ \A j \in 1 .. n : all[j + 1] = teeth[j]
      BY <1>1, <3>1
    <3>7. more \in 1 .. 4 /\ more <= n + 1
      BY <3>1 DEF A!Least
    <3> HIDE DEF all, more, now4
    <3>8. teeth' \in Seq(Nat \ {0}) /\ Len(teeth') = more /\ \A j \in 1 .. more : teeth'[j] = all[j]
      BY <3>1, <3>2, <3>6, <3>7
    <3>9. ring' \in [rpm : [1 .. 4 -> Nat], idx : 0 .. 3, smoothed : Int]
          /\ ring'.rpm = now4 /\ ring'.idx = (IF i = 3 THEN 0 ELSE i + 1) /\ ring'.smoothed = A!Sum4(now4)
      BY <3>1, <3>2, <3>3, <3>4, <3>5
    <3> HIDE DEF n
    <3>10. ASSUME NEW j \in 1 .. more PROVE now4[Place(ring'.idx, j)] = teeth'[j]
      <4>1. CASE j = 1
        <5>1. Place(ring'.idx, j) = i + 1
          BY <3>1, <3>9, <4>1 DEF Place
        <5> QED BY <3>3, <3>6, <3>7, <3>8, <4>1, <5>1
      <4>2. CASE j # 1
        <5>1. j - 1 \in 1 .. n /\ j - 1 \in 1 .. 3 /\ j = (j - 1) + 1
          BY <3>1, <3>7, <4>2
        <5>2. teeth'[j] = teeth[j - 1]
          BY <3>6, <3>8, <5>1
        <5>3. Place(ring'.idx, j) = Place(i, j - 1) /\ Place(i, j - 1) # i + 1 /\ Place(i, j - 1) \in 1 .. 4
          BY <3>1, <3>9, <5>1 DEF Place
        <5> QED BY <1>1, <3>3, <5>1, <5>2, <5>3 DEF n
      <4> QED BY <4>1, <4>2
    <3> QED BY <3>7, <3>8, <3>9, <3>10 DEF RingInv
  <2> QED BY <2>1, <2>2
<1>4. UNCHANGED aidVars => UNCHANGED A!ringVars
  BY DEF aidVars, A!ringVars
<1> QED BY <1>2, <1>3, <1>4 DEF A!Next, A!CrankEdge, A!CamEdge, A!Sample, A!Select

LEMMA RingOK == RingInv => A!RingHoldsLatest
<1> SUFFICES ASSUME RingInv, Len(teeth) = 4
             PROVE  /\ ring.smoothed = A!Sum4(teeth) /\ A!Latest = teeth[1]
                    /\ A!Squares = A!Sum4([i \in 1 .. 4 |-> A!Square(teeth[i], A!Sum4(teeth))])
  BY DEF A!RingHoldsLatest
<1> DEFINE r == ring.rpm  i == ring.idx
           S == A!Sum4(teeth)
           Sq(x) == A!Square(x, S)
<1>1. /\ r \in [1 .. 4 -> Nat] /\ i \in 0 .. 3 /\ teeth # <<>>
      /\ \A j \in 1 .. 4 : r[Place(i, j)] = teeth[j] /\ teeth[j] \in Nat /\ teeth[j] > 0
  <2>1. ring \in [rpm : [1 .. 4 -> Nat], idx : 0 .. 3, smoothed : Int] /\ teeth \in Seq(Nat \ {0})
        /\ \A j \in 1 .. Len(teeth) : ring.rpm[Place(ring.idx, j)] = teeth[j]
    BY DEF RingInv
  <2>2. r \in [1 .. 4 -> Nat] /\ i \in 0 .. 3
    BY <2>1
  <2>3. teeth # <<>> /\ \A j \in 1 .. 4 : teeth[j] \in Nat \ {0}
    <3>1. teeth \in [1 .. Len(teeth) -> Nat \ {0}]
      BY <2>1, LenProperties
    <3>2. Len(<<>>) = 0
      OBVIOUS
    <3> QED BY <3>1, <3>2
  <2>4. \A j \in 1 .. 4 : r[Place(i, j)] = teeth[j]
    BY <2>1
  <2> HIDE DEF r, i
  <2> QED BY <2>2, <2>3, <2>4, SMTT(30)
<1>2. ring.smoothed = r[1] + r[2] + r[3] + r[4]
  BY <1>1 DEF RingInv, A!Sum4
<1>3. \/ teeth[1] = r[1] /\ teeth[2] = r[4] /\ teeth[3] = r[3] /\ teeth[4] = r[2] /\ i = 1
      \/ teeth[1] = r[2] /\ teeth[2] = r[1] /\ teeth[3] = r[4] /\ teeth[4] = r[3] /\ i = 2
      \/ teeth[1] = r[3] /\ teeth[2] = r[2] /\ teeth[3] = r[1] /\ teeth[4] = r[4] /\ i = 3
      \/ teeth[1] = r[4] /\ teeth[2] = r[3] /\ teeth[3] = r[2] /\ teeth[4] = r[1] /\ i = 0
  <2>1. r[Place(i, 1)] = teeth[1] /\ r[Place(i, 2)] = teeth[2] /\ r[Place(i, 3)] = teeth[3] /\ r[Place(i, 4)] = teeth[4]
    BY <1>1
  <2>2. i = 0 \/ i = 1 \/ i = 2 \/ i = 3
    BY <1>1
  <2> QED BY <2>1, <2>2 DEF Place
<1>4. /\ r[1] \in Nat /\ r[2] \in Nat /\ r[3] \in Nat /\ r[4] \in Nat
      /\ r[1] > 0 /\ r[2] > 0 /\ r[3] > 0 /\ r[4] > 0
  BY <1>1, <1>3, SMTT(30)
<1>5. ring.smoothed = S
  BY <1>2, <1>3, <1>4 DEF A!Sum4
<1>6. A!Latest = teeth[1]
  <2>1. A!Latest = r[((i + 3) % 4) + 1]
    BY DEF A!Latest
  <2> QED BY <1>3, <2>1
<1>7. A!Squares = Sq(r[1]) + Sq(r[2]) + Sq(r[3]) + Sq(r[4])
  <2>1. A!Squares = A!Sum4([k \in 1 .. 4 |-> IF r[k] > 0 THEN A!Square(r[k], S) ELSE 0])
    BY <1>5 DEF A!Squares
  <2> HIDE DEF S, r
  <2> QED BY <1>4, <2>1 DEF A!Sum4
<1>8. A!Sum4([k \in 1 .. 4 |-> A!Square(teeth[k], S)]) = Sq(teeth[1]) + Sq(teeth[2]) + Sq(teeth[3]) + Sq(teeth[4])
  <2> HIDE DEF S
  <2> QED BY DEF A!Sum4
<1>9. S \in Int
  BY <1>2, <1>4, <1>5
<1>10. Sq(r[1]) \in Int /\ Sq(r[2]) \in Int /\ Sq(r[3]) \in Int /\ Sq(r[4]) \in Int
  <2> HIDE DEF S, r
  <2>1. \A x \in Nat : Sq(x) \in Int
    BY <1>9 DEF A!Square
  <2> QED BY <1>4, <2>1
<1>11. A!Squares = A!Sum4([k \in 1 .. 4 |-> A!Square(teeth[k], S)])
  <2> HIDE DEF S, r, Sq
  <2> QED BY <1>3, <1>7, <1>8, <1>10
<1> QED BY <1>5, <1>6, <1>11

LEMMA AidsInit == PartsInit => GmInv /\ FilterInv /\ ModeInv /\ RingInv
<1> SUFFICES ASSUME A!Init PROVE GmInv /\ FilterInv /\ ModeInv /\ RingInv
  BY DEF PartsInit
<1>1. GmInv
  BY NewDecoderOK DEF A!Init, GmInv
<1>2. FilterInv
  BY AidNumbers DEF A!Init, FilterInv
<1>3. ModeInv
  <2>1. injection = [mode |-> "Simultaneous", cycles |-> 0] /\ synced = 0
    BY DEF A!Init
  <2>2. Required \div 2 > 0 /\ Required # 0 /\ Required \in Nat
    BY AidNumbers
  <2> QED BY <2>1, <2>2 DEF ModeInv
<1>4. RingInv
  <2>1. ring = [rpm |-> <<0, 0, 0, 0>>, idx |-> 0, smoothed |-> -1] /\ teeth = <<>>
    BY DEF A!Init
  <2>2. <<0, 0, 0, 0>> \in [1 .. 4 -> Nat] /\ -1 \in Int
    OBVIOUS
  <2> QED BY <2>1, <2>2 DEF RingInv
<1> QED BY <1>1, <1>2, <1>3, <1>4

LEMMA AidsOK == GmInv /\ FilterInv /\ ModeInv /\ RingInv => A!TriggerAidsHold
<1> SUFFICES ASSUME GmInv, FilterInv, ModeInv, RingInv PROVE A!TriggerAidsHold
  OBVIOUS
<1>1. A!PositionIsCounted
  <2> DEFINE second == gm.sync = "FullSync" /\ gm.phase
             deg == gm.count * 20
  <2>1. gm \in GmType /\ gm.count \in Nat /\ gm.phase \in BOOLEAN
    BY AidNumbers DEF GmInv, GmType
  <2>2. deg \in Nat
    BY <2>1
  <2>3. A!AbsoluteAngle(20) = IF second THEN deg + 360 ELSE deg
    BY <2>1 DEF A!AbsoluteAngle
  <2> HIDE DEF second, deg
  <2>4. A!Stroke(second, deg) = A!Stroke(FALSE, A!AbsoluteAngle(20))
    BY <2>2, <2>3 DEF A!Stroke
  <2> QED BY <2>4 DEF GmInv, A!PositionIsCounted, second, deg
<1>2. A!FilterIsSteady
  BY AidNumbers DEF FilterInv, A!FilterIsSteady
<1>3. A!ModeIsEarned
  BY AidNumbers DEF ModeInv, A!ModeIsEarned
<1> QED BY <1>1, <1>2, <1>3, RingOK DEF A!TriggerAidsHold

\* What helps the trigger decoder counts what it was given since it began or was last reset, and nothing
\* else (missing_tooth.rs).
THEOREM AidsCount == PartsSpec => [](A!TriggerAidsHold)
<1> DEFINE Inv == GmInv /\ FilterInv /\ ModeInv /\ RingInv
<1>1. PartsInit => Inv
  BY AidsInit
<1>2. Inv /\ [PartsNext]_allVars => Inv'
  BY GmStep, FilterStep, ModeStep, RingStep, PartsAreApart
<1>3. Inv => A!TriggerAidsHold
  BY AidsOK
<1> HIDE DEF Inv
<1> QED
  BY <1>1, <1>2, <1>3, PTL DEF PartsSpec

----------------------------------------------------------------------------
(* Regulators.                                                             *)

LEMMA RegulatorNumbers ==
    /\ MaxIntegral \in Nat /\ MaxDuty \in Nat /\ MaxError \in Nat /\ Bases \subseteq 0 .. MaxDuty /\ Passes \subseteq Nat
    /\ OnTemp \in Int /\ OffTemp \in Int /\ SecondaryOn \in Int /\ AcOn \in Int /\ Temps \subseteq Int
    /\ OffTemp < OnTemp /\ OnTemp <= SecondaryOn /\ AcOn <= OnTemp
BY PartsAssumption DEF R!Parameters

PidType == [integral : Int, previous : Int, first : BOOLEAN, duty : 0 .. MaxDuty]
PidInv ==
    /\ pid \in PidType /\ learnt \in Int /\ fresh \in BOOLEAN
    /\ ~pid.first => pid.integral = learnt
    /\ fresh => /\ kick = 0
                /\ pid.integral \in {R!Clamp(pid.previous * dt, -MaxIntegral, MaxIntegral) : dt \in Passes}

LEMMA ClampBounds ==
    \A x, low, high \in Int : low <= high => R!Clamp(x, low, high) \in low .. high
BY DEF R!Clamp

\* A closed loop adds to what it has learnt since it was closed, and to nothing at its first update.
LEMMA CloseLoopOK ==
    ASSUME PidInv, NEW error \in -MaxError .. MaxError, NEW dt \in Passes, NEW base \in Int, NEW limit \in Int,
           R!Close(error, dt, base, limit)
    PROVE  PidInv'
<1> DEFINE before == IF pid.first THEN 0 ELSE pid.integral
           wound == R!Wind(before, error, dt)
           p == R!Sample(error, dt)
           duty == R!Clamp(base + R!Clamp(error + p.integral + R!Derivative(error), -limit, limit), 0, MaxDuty)
<1>1. pid \in PidType /\ learnt \in Int /\ error \in Int /\ dt \in Nat /\ pid.first \in BOOLEAN
      /\ pid.integral \in Int /\ pid.previous \in Int /\ pid.duty \in 0 .. MaxDuty
  BY RegulatorNumbers DEF PidInv, PidType
<1>2. before \in Int /\ before = (IF pid.first THEN 0 ELSE learnt)
  BY <1>1 DEF PidInv
<1> HIDE DEF before
<1>3. wound \in Int
  <2> DEFINE e == error * dt
  <2>1. e \in Int
    BY <1>1
  <2>2. wound = R!Clamp(before + e, -MaxIntegral, MaxIntegral)
    BY DEF R!Wind
  <2> HIDE DEF e
  <2> QED BY <1>2, <2>1, <2>2, RegulatorNumbers DEF R!Clamp
<1>4. p = [integral |-> wound, previous |-> error, first |-> FALSE, duty |-> pid.duty]
  <2> DEFINE start3 == IF pid.first THEN [pid EXCEPT !.integral = 0, !.previous = error, !.first = FALSE] ELSE pid
  <2>1. p = [start3 EXCEPT !.integral = R!Wind(start3.integral, error, dt), !.previous = error]
    BY DEF R!Sample
  <2>2. /\ start3 = [integral |-> before, previous |-> IF pid.first THEN error ELSE pid.previous,
                     first |-> FALSE, duty |-> pid.duty]
    <3>1. pid = [integral |-> pid.integral, previous |-> pid.previous, first |-> pid.first, duty |-> pid.duty]
      BY <1>1 DEF PidType
    <3>2. CASE pid.first
      BY <3>1, <3>2 DEF before
    <3>3. CASE ~pid.first
      BY <1>1, <3>1, <3>3 DEF before
    <3> QED BY <3>2, <3>3
  <2> HIDE DEF start3, p
  <2>3. p = [start3 EXCEPT !.integral = wound, !.previous = error]
    BY <2>1, <2>2
  <2> HIDE DEF wound
  <2> QED BY <2>2, <2>3
<1>5. duty \in 0 .. MaxDuty
  <2> DEFINE d == R!Derivative(error)
             c == R!Clamp(error + p.integral + d, -limit, limit)
  <2>1. d \in Int
    BY <1>1 DEF R!Derivative
  <2>2. p.integral \in Int
    BY <1>3, <1>4
  <2>3. c \in Int
    BY <1>1, <2>1, <2>2 DEF R!Clamp
  <2> HIDE DEF c
  <2>4. base + c \in Int /\ 0 <= MaxDuty
    BY <2>3, RegulatorNumbers
  <2>5. R!Clamp(base + c, 0, MaxDuty) \in 0 .. MaxDuty
    BY <2>4, RegulatorNumbers DEF R!Clamp
  <2> QED BY <2>5 DEF c
<1>6. /\ pid' = [p EXCEPT !.duty = duty] /\ kick' = R!Derivative(error) /\ fresh' = pid.first
      /\ learnt' = R!Wind(IF pid.first THEN 0 ELSE learnt, error, dt)
  BY DEF R!Close
<1> HIDE DEF wound, p, duty
<1>7. pid' = [integral |-> wound, previous |-> error, first |-> FALSE, duty |-> duty]
  BY <1>4, <1>6
<1>8. pid' \in PidType /\ pid'.integral = wound /\ pid'.previous = error /\ ~pid'.first
  BY <1>1, <1>3, <1>5, <1>7 DEF PidType
<1>9. learnt' = wound
  BY <1>2, <1>6 DEF wound
<1>10. pid.first => kick' = 0 /\ wound = R!Clamp(error * dt, -MaxIntegral, MaxIntegral)
  <2>1. error * dt \in Int /\ 0 + error * dt = error * dt
    BY <1>1
  <2> QED BY <1>6, <2>1 DEF R!Derivative, wound, before, R!Wind
<1> QED BY <1>1, <1>3, <1>6, <1>8, <1>9, <1>10 DEF PidInv

\* A loop that is opened, or whose duty is given, is not fresh.
LEMMA OpenLoopOK ==
    ASSUME PidInv, NEW duty \in 0 .. MaxDuty, fresh' = FALSE,
           \/ pid' = [integral |-> 0, previous |-> 0, first |-> TRUE, duty |-> duty] /\ learnt' = 0
           \/ pid' = [pid EXCEPT !.integral = 0, !.first = TRUE, !.duty = duty] /\ learnt' = 0
           \/ pid' = [pid EXCEPT !.duty = duty] /\ learnt' = learnt
    PROVE  PidInv'
<1>1. pid \in PidType /\ learnt \in Int /\ (~pid.first => pid.integral = learnt)
      /\ pid.previous \in Int
  BY DEF PidInv, PidType
<1>2. CASE pid' = [integral |-> 0, previous |-> 0, first |-> TRUE, duty |-> duty] /\ learnt' = 0
  <2>1. pid' \in PidType /\ pid'.first /\ learnt' \in Int
    BY <1>2 DEF PidType
  <2> QED BY <2>1, Zenon DEF PidInv
<1>3. CASE pid' = [pid EXCEPT !.integral = 0, !.first = TRUE, !.duty = duty] /\ learnt' = 0
  <2>1. pid' = [integral |-> 0, previous |-> pid.previous, first |-> TRUE, duty |-> duty]
    BY <1>1, <1>3 DEF PidType
  <2>2. pid' \in PidType
    BY <1>1, <2>1 DEF PidType
  <2>3. pid'.first
    BY <2>1
  <2>4. learnt' \in Int
    BY <1>3
  <2> QED BY <2>2, <2>3, <2>4, Zenon DEF PidInv
<1>4. CASE pid' = [pid EXCEPT !.duty = duty] /\ learnt' = learnt
  BY <1>1, <1>4 DEF PidInv, PidType
<1> QED BY <1>2, <1>3, <1>4

LEMMA PidStep ==
    ASSUME PidInv, R!Next \/ UNCHANGED pidVars
    PROVE  PidInv'
<1>1. UNCHANGED R!pidVars => PidInv'
  BY DEF R!pidVars, PidInv
<1>2. 0 \in 0 .. MaxDuty /\ \A base \in Bases : base \in 0 .. MaxDuty /\ base \in Int
  BY RegulatorNumbers
<1>3. 3 * MaxDuty \in Int /\ MaxIntegral \in Int /\ 0 \in Int
  BY RegulatorNumbers
<1>4. ASSUME NEW error \in -MaxError .. MaxError, NEW base \in Bases, NEW dt \in Passes, NEW flag \in BOOLEAN,
             NEW mode3 \in {"Disabled", "OpenLoop", "ClosedLoop"}, R!Vvt(mode3, error, flag, base, dt)
      PROVE  PidInv'
  <2>1. CASE mode3 = "Disabled"
    BY <1>2, <1>4, <2>1, OpenLoopOK DEF R!Vvt
  <2>2. CASE mode3 = "OpenLoop"
    BY <1>2, <1>4, <2>2, OpenLoopOK DEF R!Vvt
  <2>3. CASE mode3 = "ClosedLoop" /\ flag
    <3>1. R!Close(error, dt, 0, 3 * MaxDuty)
      BY <1>4, <2>3 DEF R!Vvt
    <3> QED BY <1>3, <3>1, CloseLoopOK
  <2>4. CASE mode3 = "ClosedLoop" /\ ~flag
    <3>1. pid' = [pid EXCEPT !.duty = base] /\ fresh' = FALSE /\ learnt' = learnt
      BY <1>4, <2>4 DEF R!Vvt
    <3> QED BY <1>2, <3>1, OpenLoopOK
  <2> QED BY <2>1, <2>2, <2>3, <2>4
<1>5. ASSUME NEW error \in -MaxError .. MaxError, NEW base \in Bases, NEW dt \in Passes, NEW flag \in BOOLEAN,
             NEW fast \in BOOLEAN, R!Boost(fast, flag, error, base, dt)
      PROVE  PidInv'
  <2>1. CASE fast /\ flag
    <3>1. R!Close(error, dt, base, MaxIntegral)
      BY <1>5, <2>1 DEF R!Boost
    <3> QED BY <1>2, <1>3, <3>1, CloseLoopOK
  <2>2. CASE ~(fast /\ flag)
    <3>1. (IF fast THEN base ELSE 0) \in 0 .. MaxDuty
      BY <1>2
    <3> QED BY <1>5, <2>2, <3>1, OpenLoopOK DEF R!Boost
  <2> QED BY <2>1, <2>2
<1>6. ASSUME NEW error \in -MaxError .. MaxError, NEW dt \in Passes, NEW flag \in BOOLEAN, R!Aux(flag, error, dt)
      PROVE  PidInv'
  <2>1. CASE flag
    <3>1. R!Close(error, dt, 0, 3 * MaxDuty)
      BY <1>6, <2>1 DEF R!Aux
    <3> QED BY <1>3, <3>1, CloseLoopOK
  <2>2. CASE ~flag
    BY <1>2, <1>6, <2>2, OpenLoopOK DEF R!Aux
  <2> QED BY <2>1, <2>2
<1>7. R!Reset => PidInv'
  BY <1>2, OpenLoopOK DEF R!Reset
<1>8. UNCHANGED pidVars => UNCHANGED R!pidVars
  BY DEF pidVars, R!pidVars
<1> QED BY <1>1, <1>4, <1>5, <1>6, <1>7, <1>8 DEF R!Next, R!UpdateFans, R!SetValue, R!SetAxis

\* What the fans are now follows from the latest temperature alone, but between two thresholds.
FanInv ==
    /\ fans \in [primary : BOOLEAN, secondary : BOOLEAN, ac : BOOLEAN, engaged : BOOLEAN]
    /\ R!FansFollow

LEMMA FanStep ==
    ASSUME FanInv, R!Next \/ UNCHANGED pidVars
    PROVE  FanInv'
<1>1. UNCHANGED R!fanVars => FanInv'
  BY DEF R!fanVars, FanInv, R!FansFollow
<1>2. ASSUME NEW t \in Temps, NEW ac \in BOOLEAN, R!UpdateFans(t, ac) PROVE FanInv'
  <2> DEFINE first3 == R!Fan(fans.primary, t, OnTemp)
             second3 == t >= SecondaryOn /\ R!Fan(fans.secondary, t, SecondaryOn)
             ac3 == R!Fan(fans.ac, t, IF ac THEN AcOn ELSE OnTemp)
  <2>1. fans' = [primary |-> first3, secondary |-> second3, engaged |-> ac, ac |-> ac3] /\ clt' = t
    BY <1>2 DEF R!UpdateFans
  <2>2. t \in Int /\ fans.primary \in BOOLEAN /\ fans.secondary \in BOOLEAN /\ fans.ac \in BOOLEAN
    BY RegulatorNumbers DEF FanInv
  <2>3. /\ first3 \in BOOLEAN /\ second3 \in BOOLEAN /\ ac3 \in BOOLEAN
        /\ t >= OnTemp => first3 /\ ac3
        /\ t <= OffTemp => ~first3
        /\ second3 <=> t >= SecondaryOn
        /\ second3 => first3
    <3>1. first3 \in BOOLEAN /\ (t >= OnTemp => first3) /\ (t <= OffTemp => ~first3)
      <4>1. (t >= OnTemp => t > OffTemp) /\ ~(t <= OffTemp /\ t > OffTemp) /\ ~(t <= OffTemp /\ t >= OnTemp)
        BY <2>2, RegulatorNumbers
      <4>2. (t > OffTemp) \in BOOLEAN /\ (t >= OnTemp) \in BOOLEAN
        BY <2>2, RegulatorNumbers
      <4> QED BY <2>2, <4>1, <4>2, Zenon DEF R!Fan
    <3>2. ac3 \in BOOLEAN /\ (t >= OnTemp => ac3)
      <4> DEFINE on == IF ac THEN AcOn ELSE OnTemp
      <4>1. on \in Int /\ on <= OnTemp
        BY RegulatorNumbers
      <4>2. ac3 = R!Fan(fans.ac, t, on)
        OBVIOUS
      <4> HIDE DEF ac3, on
      <4>3. (t >= OnTemp => t > OffTemp) /\ (t >= OnTemp => t >= on)
        BY <2>2, <4>1, RegulatorNumbers
      <4>4. (t > OffTemp) \in BOOLEAN /\ (t >= on) \in BOOLEAN
        BY <2>2, <4>1, RegulatorNumbers
      <4> QED BY <2>2, <4>2, <4>3, <4>4, Zenon DEF R!Fan
    <3>3. second3 \in BOOLEAN /\ (second3 => t >= SecondaryOn) /\ (t >= SecondaryOn => second3)
      BY <2>2, RegulatorNumbers DEF R!Fan
    <3>4. t >= SecondaryOn => t >= OnTemp
      BY <2>2, RegulatorNumbers
    <3> HIDE DEF first3, second3, ac3
    <3> QED BY <3>1, <3>2, <3>3, <3>4
  <2> HIDE DEF first3, second3, ac3
  <2>4. fans' \in [primary : BOOLEAN, secondary : BOOLEAN, ac : BOOLEAN, engaged : BOOLEAN]
    BY <2>1, <2>3
  <2>5. fans'.primary = first3 /\ fans'.secondary = second3 /\ fans'.ac = ac3
    BY <2>1
  <2> QED BY <2>1, <2>3, <2>4, <2>5 DEF FanInv, R!FansFollow
<1>3. UNCHANGED pidVars => UNCHANGED R!fanVars
  BY DEF pidVars, R!fanVars
<1> QED BY <1>1, <1>2, <1>3, ZenonT(30) DEF R!Next, R!Vvt, R!Boost, R!Aux, R!Reset, R!SetValue, R!SetAxis

MapInv == axis \in R!Axes /\ map \in [1 .. 3 -> 0 .. MaxDuty]

LEMMA MapStep ==
    ASSUME MapInv, R!Next \/ UNCHANGED pidVars
    PROVE  MapInv'
<1>1. UNCHANGED R!mapVars => MapInv'
  BY DEF R!mapVars, MapInv
<1>2. ASSUME NEW i \in 1 .. 3, NEW duty \in Bases \cup {MaxDuty + 1}, R!SetValue(i, duty) PROVE MapInv'
  <2>1. duty \in Int /\ 0 <= MaxDuty
    BY RegulatorNumbers
  <2>2. R!Clamp(duty, 0, MaxDuty) \in 0 .. MaxDuty
    BY <2>1, ClampBounds, RegulatorNumbers
  <2> QED BY <1>2, <2>2 DEF R!SetValue, MapInv
<1>3. ASSUME NEW a \in R!Axes, R!SetAxis(a) PROVE MapInv'
  BY <1>3 DEF R!SetAxis, MapInv
<1>4. UNCHANGED pidVars => UNCHANGED R!mapVars
  BY DEF pidVars, R!mapVars
<1> QED BY <1>1, <1>2, <1>3, <1>4, ZenonT(30) DEF R!Next, R!Vvt, R!Boost, R!Aux, R!Reset, R!UpdateFans

\* A value between two cells is a mean of both.
LEMMA Mean ==
    ASSUME NEW a \in Nat, NEW b \in Nat, NEW w \in Nat, NEW x \in 0 .. w
    PROVE  /\ a * w + (b - a) * x \in Int /\ a * w \in Int /\ b * w \in Int
           /\ a <= b => a * w <= a * w + (b - a) * x /\ a * w + (b - a) * x <= b * w
           /\ b <= a => b * w <= a * w + (b - a) * x /\ a * w + (b - a) * x <= a * w
<1>1. a * w \in Int /\ b * w \in Int /\ (b - a) * x \in Int /\ (b - a) * w \in Int /\ (b - a) * w = b * w - a * w
  OBVIOUS
<1>2. CASE a <= b
  <2> DEFINE d == b - a
  <2>1. d \in Nat
    BY <1>2
  <2> HIDE DEF d
  <2>2. 0 <= d * x /\ d * x <= d * w
    BY <2>1
  <2> QED BY <1>1, <1>2, <2>2 DEF d
<1>3. CASE b <= a
  <2> DEFINE d == a - b
  <2>1. d \in Nat
    BY <1>3
  <2>2. (b - a) * x = -(d * x) /\ (b - a) * w = -(d * w)
    OBVIOUS
  <2> HIDE DEF d
  <2>3. 0 <= d * x /\ d * x <= d * w /\ d * x \in Int /\ d * w \in Int
    BY <2>1
  <2> QED BY <1>1, <1>3, <2>2, <2>3
<1> QED BY <1>1, <1>2, <1>3

LEMMA MapOK == MapInv => R!DutyIsMapped
<1> SUFFICES ASSUME MapInv, NEW v \in -1 .. 6
             PROVE  LET d == R!Duty(v) IN
                    d[2] > 0 /\ \E i, j \in 1 .. 3 : map[i] * d[2] <= d[1] /\ d[1] <= map[j] * d[2]
  BY DEF R!DutyIsMapped
<1> DEFINE found == {i \in 1 .. 2 : v >= axis[i] /\ v < axis[i + 1]}
           f == R!FindIndex(v)
<1>1. /\ Len(axis) = 3 /\ axis[1] \in Int /\ axis[2] \in Int /\ axis[3] \in Int
  BY DEF MapInv, R!Axes
<1>2. f = IF v <= axis[1] THEN <<1, 1, 0, 1>>
          ELSE IF v >= axis[3] \/ found = {} THEN <<3, 3, 0, 1>>
          ELSE LET i == CHOOSE i \in found : \A j \in found : i <= j
               IN <<i, i + 1, v - axis[i], axis[i + 1] - axis[i]>>
  <2>1. 3 - 1 = 2
    OBVIOUS
  <2> QED BY <1>1, <2>1 DEF R!FindIndex
<1>3. \E i, j \in 1 .. 3, x \in Nat, w \in Nat : f = <<i, j, x, w>> /\ x <= w /\ w > 0
  <2>1. CASE v <= axis[1]
    <3>1. f = <<1, 1, 0, 1>>
      BY <1>2, <2>1
    <3> HIDE DEF f
    <3> QED BY <3>1
  <2>2. CASE ~(v <= axis[1]) /\ (v >= axis[3] \/ found = {})
    <3>1. f = <<3, 3, 0, 1>>
      BY <1>2, <2>2
    <3> HIDE DEF f
    <3> QED BY <3>1
  <2>3. CASE ~(v <= axis[1]) /\ ~(v >= axis[3] \/ found = {})
    <3> DEFINE i == CHOOSE i \in found : \A j \in found : i <= j
    <3>1. \E i3 \in found : \A j \in found : i3 <= j
      <4>1. (\A i3 \in found : i3 = 1 \/ i3 = 2) /\ found # {}
        BY <2>3
      <4> HIDE DEF found, i
      <4>2. CASE 1 \in found
        BY <4>1, <4>2
      <4>3. CASE 1 \notin found
        BY <4>1, <4>3
      <4> QED BY <4>2, <4>3
    <3>2. i \in found
      <4> HIDE DEF found
      <4> QED BY <3>1, SMTT(30)
    <3>3. f = <<i, i + 1, v - axis[i], axis[i + 1] - axis[i]>>
      BY <1>2, <2>3
    <3> HIDE DEF i, f
    <3>4. i \in 1 .. 2 /\ v >= axis[i] /\ v < axis[i + 1]
      BY <3>2
    <3>5. /\ i \in 1 .. 3 /\ i + 1 \in 1 .. 3 /\ v - axis[i] \in Nat /\ axis[i + 1] - axis[i] \in Nat
          /\ v - axis[i] <= axis[i + 1] - axis[i] /\ axis[i + 1] - axis[i] > 0
      BY <1>1, <3>4
    <3> HIDE DEF found
    <3> QED BY <3>3, <3>5
  <2> QED BY <2>1, <2>2, <2>3
<1> HIDE DEF f, found
<1>4. PICK i \in 1 .. 3, j \in 1 .. 3, x \in Nat, w \in Nat : f = <<i, j, x, w>> /\ x <= w /\ w > 0
  BY <1>3
<1> DEFINE a == map[i]  b == map[j]
<1>5. R!Duty(v) = <<a * w + (b - a) * x, w>>
  BY <1>4 DEF R!Duty, f
<1>6. a \in Nat /\ b \in Nat /\ x \in 0 .. w
  BY <1>4, RegulatorNumbers DEF MapInv
<1>7. \/ a * w <= a * w + (b - a) * x /\ a * w + (b - a) * x <= b * w
      \/ b * w <= a * w + (b - a) * x /\ a * w + (b - a) * x <= a * w
  <2> HIDE DEF a, b
  <2>1. a <= b \/ b <= a
    BY <1>6
  <2> QED BY <1>6, <2>1, Mean
<1> QED BY <1>4, <1>5, <1>7

LEMMA RegulatorsInit == PartsInit => PidInv /\ FanInv /\ MapInv
<1> SUFFICES ASSUME R!Init PROVE PidInv /\ FanInv /\ MapInv
  BY DEF PartsInit
<1>1. PidInv
  <2>1. pid = [integral |-> 0, previous |-> 0, first |-> TRUE, duty |-> 0] /\ learnt = 0 /\ fresh = FALSE
    BY DEF R!Init
  <2>2. pid \in PidType
    BY <2>1, RegulatorNumbers DEF PidType
  <2>3. pid.first
    BY <2>1
  <2>4. learnt \in Int
    BY <2>1
  <2> QED BY <2>1, <2>2, <2>3, <2>4, Zenon DEF PidInv
<1>2. FanInv
  <2>1. fans = [primary |-> FALSE, secondary |-> FALSE, ac |-> FALSE, engaged |-> FALSE] /\ clt = -1
    BY DEF R!Init
  <2>2. fans \in [primary : BOOLEAN, secondary : BOOLEAN, ac : BOOLEAN, engaged : BOOLEAN] /\ ~(clt >= 0)
    BY <2>1
  <2> QED BY <2>2 DEF FanInv, R!FansFollow
<1>3. MapInv
  BY RegulatorNumbers DEF R!Init, MapInv, R!Axes
<1> QED BY <1>1, <1>2, <1>3

LEMMA RegulatorsOK == PidInv /\ FanInv /\ MapInv => R!RegulatorsHold
<1>1. PidInv => R!LoopsStartClean
  BY DEF PidInv, PidType, R!LoopsStartClean
<1>2. FanInv => R!FansFollow
  BY DEF FanInv
<1> QED BY <1>1, <1>2, MapOK DEF R!RegulatorsHold

\* A loop that closes starts afresh, its duty stays in range, the fans follow the temperatures, and a map
\* never leaves the range of its cells (vvt.rs, boost.rs, pwm.rs, outputs/mod.rs).
THEOREM RegulatorsStandWell == PartsSpec => [](R!RegulatorsHold)
<1> DEFINE Inv == PidInv /\ FanInv /\ MapInv
<1>1. PartsInit => Inv
  BY RegulatorsInit
<1>2. Inv /\ [PartsNext]_allVars => Inv'
  BY PidStep, FanStep, MapStep, PartsAreApart
<1>3. Inv => R!RegulatorsHold
  BY RegulatorsOK
<1> HIDE DEF Inv
<1> QED
  BY <1>1, <1>2, <1>3, PTL DEF PartsSpec

----------------------------------------------------------------------------
(* CanBus.                                                                 *)

LEMMA CanNumbers == QueueRoom \in Nat /\ Fifo \in Nat /\ Values \subseteq Int
BY PartsAssumption DEF N!Parameters

QueryType == [kind : {"query"}, service : Nat, pid : Pids, n : Nat]
DashKinds == {"360", "361", "362", "0AA", "0D5", "204", "309"}
FrameType == [kind : DashKinds \cup {"answer"}, service : Nat, pid : Pids \cup {0}, n : Nat]

\* Queries on their way keep the order of their arrival.
Queue(q) == q \in Seq(QueryType) /\ \A i, j \in 1 .. Len(q) : i < j => q[i].n < q[j].n
QueriesInOrder ==
    /\ arrived \in Nat /\ Queue(rx) /\ Queue(wire)
    /\ \A i \in 1 .. Len(rx), j \in 1 .. Len(wire) : rx[i].n < wire[j].n
    /\ \A i \in 1 .. Len(rx) : rx[i].n <= arrived
    /\ \A i \in 1 .. Len(wire) : wire[i].n <= arrived

\* What has been answered came before what waits.
Before(x) ==
    /\ x <= arrived
    /\ \A i \in 1 .. Len(rx) : x < rx[i].n
    /\ \A i \in 1 .. Len(wire) : x < wire[i].n
Answers == {i \in 1 .. Len(accepted) : accepted[i].kind = "answer"}
AnswersInOrder ==
    /\ \A i, j \in Answers : i < j => accepted[i].n < accepted[j].n
    /\ \A i \in Answers : Before(accepted[i].n) /\ accepted[i] \in N!ToSet(handled)

\* A frame of a round that is not its first comes after the one before it.
Successions == {<<"360", "361">>, <<"361", "362">>, <<"0AA", "0D5">>, <<"204", "309">>}
Whole(s) ==
    \A st \in Successions : \A k \in 1 .. Len(s) :
        s[k].kind = st[2] => k > 1 /\ s[k - 1].kind = st[1] /\ s[k - 1].n = s[k].n

CanTypes ==
    /\ bus \in Seq(FrameType) /\ tx \in Seq(FrameType) /\ accepted \in Seq(FrameType) /\ handled \in Seq(FrameType)
    /\ rounds \in Nat
CanInv == CanTypes /\ N!TakenIsSent /\ QueriesInOrder /\ AnswersInOrder /\ Whole(accepted)

\* transmit takes a beginning of what it is given, as much as there is room for.
LEMMA AcceptedIsPrefix ==
    ASSUME CanInv, NEW frames \in Seq(FrameType)
    PROVE  \E m \in 0 .. Len(frames) :
               /\ m <= QueueRoom - Len(tx)
               /\ N!Accepted(frames) \in Seq(FrameType) /\ Len(N!Accepted(frames)) = m
               /\ \A i \in 1 .. m : N!Accepted(frames)[i] = frames[i]
<1> DEFINE m == N!Min({Len(frames), QueueRoom - Len(tx)})
<1>1. Len(frames) \in Nat /\ Len(tx) \in Nat /\ Len(tx) <= QueueRoom
  BY CanNumbers DEF CanInv, CanTypes, N!TakenIsSent
<1>2. m \in 0 .. Len(frames) /\ m <= QueueRoom - Len(tx)
  BY <1>1, CanNumbers, LeastOfTwo
<1>3. N!Accepted(frames) = SubSeq(frames, 1, m)
  BY DEF N!Accepted
<1> HIDE DEF m
<1>4. SubSeq(frames, 1, m) \in Seq(FrameType) /\ Len(SubSeq(frames, 1, m)) = m
  BY <1>1, <1>2
<1>5. \A i \in 1 .. m : SubSeq(frames, 1, m)[i] = frames[i]
  BY <1>1, <1>2
<1> QED BY <1>2, <1>3, <1>4, <1>5

\* What is taken of a round, or of an answer, follows on what was taken before.
LEMMA WholeGrows ==
    ASSUME NEW s \in Seq(FrameType), NEW new \in Seq(FrameType), Whole(s), Whole(new)
    PROVE  Whole(s \o new)
<1> SUFFICES ASSUME NEW st \in Successions, NEW k \in 1 .. Len(s \o new), (s \o new)[k].kind = st[2]
             PROVE  k > 1 /\ (s \o new)[k - 1].kind = st[1] /\ (s \o new)[k - 1].n = (s \o new)[k].n
  BY DEF Whole
<1>1. /\ Len(s) \in Nat /\ Len(new) \in Nat /\ Len(s \o new) = Len(s) + Len(new)
      /\ \A i \in 1 .. Len(s) : (s \o new)[i] = s[i]
      /\ \A i \in 1 .. Len(new) : (s \o new)[Len(s) + i] = new[i]
  BY ConcatProperties
<1>2. CASE k <= Len(s)
  <2>1. s[k].kind = st[2] /\ k \in 1 .. Len(s)
    BY <1>1, <1>2
  <2>2. k > 1 /\ s[k - 1].kind = st[1] /\ s[k - 1].n = s[k].n
    BY <2>1 DEF Whole
  <2>3. k - 1 \in 1 .. Len(s)
    BY <1>1, <2>1, <2>2
  <2> QED BY <1>1, <2>1, <2>2, <2>3
<1>3. CASE k > Len(s)
  <2> DEFINE i == k - Len(s)
  <2>1. i \in 1 .. Len(new) /\ k = Len(s) + i /\ k \in Nat
    BY <1>1, <1>3
  <2> HIDE DEF i
  <2>2. (s \o new)[k] = new[i]
    BY <1>1, <2>1
  <2>3. i > 1 /\ new[i - 1].kind = st[1] /\ new[i - 1].n = new[i].n
    BY <2>1, <2>2 DEF Whole
  <2>4. i - 1 \in 1 .. Len(new) /\ k - 1 = Len(s) + (i - 1) /\ k > 1
    BY <1>1, <2>1, <2>3, SMTT(30)
  <2>5. (s \o new)[k - 1] = new[i - 1]
    BY <1>1, <2>4
  <2> QED BY <2>2, <2>3, <2>4, <2>5
<1> QED BY <1>1, <1>2, <1>3

LEMMA WholePrefix ==
    ASSUME NEW s \in Seq(FrameType), NEW b \in Seq(FrameType), NEW t \in Seq(FrameType), s = b \o t, Whole(s)
    PROVE  Whole(b)
<1>1. /\ Len(b) \in Nat /\ Len(t) \in Nat /\ Len(s) = Len(b) + Len(t)
      /\ \A i \in 1 .. Len(b) : s[i] = b[i]
  BY ConcatProperties
<1>2. ASSUME NEW st \in Successions, NEW k \in 1 .. Len(b), b[k].kind = st[2]
      PROVE  k > 1 /\ b[k - 1].kind = st[1] /\ b[k - 1].n = b[k].n
  <2>1. s[k] = b[k] /\ k \in 1 .. Len(s)
    BY <1>1
  <2>2. k > 1 /\ s[k - 1].kind = st[1] /\ s[k - 1].n = s[k].n
    BY <1>2, <2>1 DEF Whole
  <2>3. k - 1 \in 1 .. Len(b)
    BY <1>1, <2>2
  <2> QED BY <1>1, <2>1, <2>2, <2>3
<1> QED BY <1>2 DEF Whole

LEMMA QueueTail ==
    ASSUME NEW q, Queue(q), q # <<>>
    PROVE  /\ Queue(Tail(q)) /\ Head(q) \in QueryType /\ Head(q) = q[1] /\ 1 \in 1 .. Len(q)
           /\ \A i \in 1 .. Len(Tail(q)) : Tail(q)[i] = q[i + 1] /\ i + 1 \in 1 .. Len(q) /\ q[1].n < Tail(q)[i].n
<1>1. q \in Seq(QueryType) /\ Len(q) \in Nat /\ Len(q) > 0
  BY DEF Queue
<1>2. /\ Tail(q) \in Seq(QueryType) /\ Len(Tail(q)) = Len(q) - 1 /\ Head(q) = q[1]
      /\ \A i \in 1 .. Len(Tail(q)) : Tail(q)[i] = q[i + 1] /\ i + 1 \in 1 .. Len(q)
  BY <1>1
<1>3. \A i, j \in 1 .. Len(q) : i < j => q[i].n < q[j].n
  BY DEF Queue
<1>4. \A i, j \in 1 .. Len(Tail(q)) : i < j => Tail(q)[i].n < Tail(q)[j].n
  BY <1>1, <1>2, <1>3
<1>5. 1 \in 1 .. Len(q) /\ \A i \in 1 .. Len(Tail(q)) : 1 < i + 1
  BY <1>1
<1>6. \A i \in 1 .. Len(Tail(q)) : q[1].n < Tail(q)[i].n
  BY <1>2, <1>3, <1>5
<1>7. q[1] \in QueryType
  BY <1>1, <1>5
<1> QED BY <1>2, <1>4, <1>5, <1>6, <1>7 DEF Queue

LEMMA QueueAppend ==
    ASSUME NEW q, Queue(q), NEW x \in QueryType, \A i \in 1 .. Len(q) : q[i].n < x.n
    PROVE  /\ Queue(Append(q, x))
           /\ \A i \in 1 .. Len(Append(q, x)) : (i \in 1 .. Len(q) /\ Append(q, x)[i] = q[i]) \/ Append(q, x)[i] = x
<1>1. q \in Seq(QueryType) /\ Len(q) \in Nat
  BY DEF Queue
<1>2. /\ Append(q, x) \in Seq(QueryType) /\ Len(Append(q, x)) = Len(q) + 1 /\ Append(q, x)[Len(q) + 1] = x
      /\ \A i \in 1 .. Len(q) : Append(q, x)[i] = q[i]
  BY <1>1
<1>3. \A i, j \in 1 .. Len(q) : i < j => q[i].n < q[j].n
  BY DEF Queue
<1>4. \A i \in 1 .. Len(q) + 1 : i \in 1 .. Len(q) \/ i = Len(q) + 1
  BY <1>1
<1>5. \A i, j \in 1 .. Len(q) + 1 : i < j => i \in 1 .. Len(q)
  BY <1>1
<1>6. \A i, j \in 1 .. Len(q) + 1 : i < j => Append(q, x)[i].n < Append(q, x)[j].n
  BY <1>2, <1>3, <1>4, <1>5
<1> QED BY <1>2, <1>4, <1>6 DEF Queue

\* The queues keep their order, and what came before them does so still.
LEMMA QueriesStep ==
    ASSUME QueriesInOrder, N!Next \/ UNCHANGED canVars
    PROVE  QueriesInOrder' /\ \A x \in Int : Before(x) => Before(x)'
<1> DEFINE Goal == QueriesInOrder' /\ \A x \in Int : Before(x) => Before(x)'
<1>1. /\ arrived \in Nat /\ Queue(rx) /\ Queue(wire)
      /\ \A i \in 1 .. Len(rx), j \in 1 .. Len(wire) : rx[i].n < wire[j].n
      /\ \A i \in 1 .. Len(rx) : rx[i].n <= arrived /\ rx[i].n \in Nat
      /\ \A i \in 1 .. Len(wire) : wire[i].n <= arrived /\ wire[i].n \in Nat
  <2>1. Queue(rx) /\ Queue(wire)
    BY DEF QueriesInOrder
  <2>2. \A i \in 1 .. Len(rx) : rx[i] \in QueryType
    BY <2>1 DEF Queue
  <2>3. \A i \in 1 .. Len(wire) : wire[i] \in QueryType
    BY <2>1 DEF Queue
  <2>4. \A f \in QueryType : f.n \in Nat
    BY DEF QueryType
  <2> QED BY <2>2, <2>3, <2>4 DEF QueriesInOrder
<1>2. arrived' = arrived /\ rx' = rx /\ wire' = wire => Goal
  BY DEF QueriesInOrder, Queue, Before
<1>3. ASSUME NEW service \in {1, 2}, NEW pid3 \in Pids, N!Arrive(service, pid3) PROVE Goal
  <2> DEFINE q == N!Query(service, pid3, arrived + 1)
  <2>1. arrived' = arrived + 1 /\ rx' = rx /\ (wire' = Append(wire, q) \/ wire' = wire)
    BY <1>3 DEF N!Arrive
  <2>2. q \in QueryType /\ q.n = arrived + 1
    BY <1>1 DEF N!Query, QueryType
  <2> HIDE DEF q
  <2>3. CASE wire' = wire
    <3>1. QueriesInOrder'
      <4>0. Queue(wire) /\ Queue(rx)
        BY <1>1
      <4>1. Queue(wire') /\ Queue(rx')
        BY <2>1, <2>3, <4>0, Zenon
      <4>2. /\ \A i \in 1 .. Len(wire) : wire[i].n \in Nat /\ wire[i].n <= arrived + 1
            /\ \A i \in 1 .. Len(rx) : rx[i].n \in Nat /\ rx[i].n <= arrived + 1
        BY <1>1
      <4> QED BY <1>1, <2>1, <2>3, <4>1, <4>2 DEF QueriesInOrder
    <3>2. \A x \in Int : Before(x) => Before(x)'
      BY <1>1, <2>1, <2>3 DEF Before
    <3> QED BY <3>1, <3>2
  <2>4. CASE wire' = Append(wire, q)
    <3>1. \A i \in 1 .. Len(wire) : wire[i].n < q.n
      BY <1>1, <2>2
    <3>2. /\ Queue(wire')
          /\ \A i \in 1 .. Len(wire') : (i \in 1 .. Len(wire) /\ wire'[i] = wire[i]) \/ wire'[i] = q
      BY <1>1, <2>2, <2>4, <3>1, QueueAppend
    <3>3. /\ \A i \in 1 .. Len(rx), j \in 1 .. Len(wire') : rx[i].n < wire'[j].n
          /\ \A i \in 1 .. Len(wire') : wire'[i].n <= arrived + 1
          /\ \A i \in 1 .. Len(rx) : rx[i].n <= arrived + 1
      BY <1>1, <2>2, <3>2, SMTT(30)
    <3>4. QueriesInOrder'
      BY <1>1, <2>1, <3>2, <3>3, SMTT(30) DEF QueriesInOrder, Queue
    <3>5. ASSUME NEW x \in Int, Before(x) PROVE Before(x)'
      <4>1. x <= arrived /\ x <= arrived + 1 /\ x < q.n
        BY <1>1, <2>2, <3>5 DEF Before
      <4>2. \A i \in 1 .. Len(wire') : x < wire'[i].n
        BY <3>2, <3>5, <4>1 DEF Before
      <4> QED BY <2>1, <3>5, <4>1, <4>2 DEF Before
    <3> QED BY <3>4, <3>5
  <2> QED BY <2>1, <2>3, <2>4
<1>4. ASSUME N!Read PROVE Goal
  <2>1. wire # <<>> /\ wire' = Tail(wire) /\ arrived' = arrived /\ (rx' = Append(rx, Head(wire)) \/ rx' = rx)
    BY <1>4 DEF N!Read
  <2>2. /\ Queue(wire') /\ Head(wire) \in QueryType /\ Head(wire) = wire[1] /\ 1 \in 1 .. Len(wire)
        /\ \A i \in 1 .. Len(wire') : wire'[i] = wire[i + 1] /\ i + 1 \in 1 .. Len(wire) /\ wire[1].n < wire'[i].n
    BY <1>1, <2>1, QueueTail
  <2>3. /\ Queue(rx')
        /\ \A i \in 1 .. Len(rx') : (i \in 1 .. Len(rx) /\ rx'[i] = rx[i]) \/ rx'[i] = wire[1]
    <3>1. \A i \in 1 .. Len(rx) : rx[i].n < Head(wire).n
      BY <1>1, <2>2
    <3>2. CASE rx' = Append(rx, Head(wire))
      BY <1>1, <2>2, <3>1, <3>2, QueueAppend
    <3>3. CASE rx' = rx
      BY <1>1, <3>3
    <3> QED BY <2>1, <3>2, <3>3
  <2>4. \A i \in 1 .. Len(rx'), j \in 1 .. Len(wire') : rx'[i].n < wire'[j].n
    BY <1>1, <2>2, <2>3
  <2>5. /\ \A i \in 1 .. Len(rx') : rx'[i].n <= arrived
        /\ \A i \in 1 .. Len(wire') : wire'[i].n <= arrived
    BY <1>1, <2>2, <2>3
  <2>6. QueriesInOrder'
    BY <1>1, <2>1, <2>2, <2>3, <2>4, <2>5 DEF QueriesInOrder, Queue
  <2>7. ASSUME NEW x \in Int, Before(x) PROVE Before(x)'
    <3>1. /\ \A i \in 1 .. Len(rx') : x < rx'[i].n
          /\ \A i \in 1 .. Len(wire') : x < wire'[i].n
      BY <2>2, <2>3, <2>7 DEF Before
    <3> QED BY <2>1, <2>7, <3>1 DEF Before
  <2> QED BY <2>6, <2>7
<1>5. ASSUME N!HandleQuery PROVE Goal
  <2>1. rx # <<>> /\ rx' = Tail(rx) /\ arrived' = arrived /\ wire' = wire
    BY <1>5 DEF N!HandleQuery
  <2>2. /\ Queue(rx')
        /\ \A i \in 1 .. Len(rx') : rx'[i] = rx[i + 1] /\ i + 1 \in 1 .. Len(rx)
    BY <1>1, <2>1, QueueTail
  <2>3. /\ \A i \in 1 .. Len(rx'), j \in 1 .. Len(wire') : rx'[i].n < wire'[j].n
        /\ \A i \in 1 .. Len(rx') : rx'[i].n <= arrived
    BY <1>1, <2>1, <2>2, ZenonT(30)
  <2>4. QueriesInOrder'
    BY <1>1, <2>1, <2>2, <2>3 DEF QueriesInOrder, Queue
  <2>5. ASSUME NEW x \in Int, Before(x) PROVE Before(x)'
    BY <2>1, <2>2, <2>5 DEF Before
  <2> QED BY <2>4, <2>5
<1>6. ASSUME N!ProcessRx PROVE Goal
  <2>1. rx' = <<>> /\ arrived' = arrived /\ wire' = wire /\ Len(rx') = 0
    BY <1>6 DEF N!ProcessRx
  <2>2. Queue(rx')
    BY <2>1 DEF Queue
  <2>3. QueriesInOrder'
    BY <1>1, <2>1, <2>2 DEF QueriesInOrder, Queue
  <2>4. \A x \in Int : Before(x) => Before(x)'
    BY <2>1 DEF Before
  <2> QED BY <2>3, <2>4
<1> QED
  BY <1>2, <1>3, <1>4, <1>5, <1>6 DEF N!Next, canVars, N!Write, N!Await, N!BusError, N!TransmitAll

\* What transmit does to the sequences: the bus and the queue are still all that was taken.
LEMMA TransmitOK ==
    ASSUME CanInv, NEW frames \in Seq(FrameType), N!Transmit(frames), bus' = bus
    PROVE  /\ tx' \in Seq(FrameType) /\ accepted' \in Seq(FrameType) /\ bus' \o tx' = accepted' /\ Len(tx') <= QueueRoom
           /\ accepted' = accepted \o N!Accepted(frames) /\ N!Accepted(frames) \in Seq(FrameType)
<1> DEFINE new == N!Accepted(frames)
<1>1. PICK m \in 0 .. Len(frames) : m <= QueueRoom - Len(tx) /\ new \in Seq(FrameType) /\ Len(new) = m
  BY AcceptedIsPrefix
<1>2. tx' = tx \o new /\ accepted' = accepted \o new
  BY DEF N!Transmit
<1> HIDE DEF new
<1>3. /\ bus \in Seq(FrameType) /\ tx \in Seq(FrameType) /\ accepted \in Seq(FrameType) /\ bus \o tx = accepted
      /\ Len(tx) \in Nat
  BY DEF CanInv, CanTypes, N!TakenIsSent
<1>4. tx' \in Seq(FrameType) /\ accepted' \in Seq(FrameType) /\ Len(tx') = Len(tx) + Len(new)
  BY <1>1, <1>2, <1>3, ConcatProperties
<1>5. bus \o (tx \o new) = (bus \o tx) \o new
  <2>1. bus \in Seq(FrameType) /\ tx \in Seq(FrameType) /\ new \in Seq(FrameType)
    BY <1>1, <1>3
  <2>2. (bus \o tx) \o new = bus \o (tx \o new)
    BY <2>1, ConcatAssociative, SMTT(30)
  <2> QED BY <2>2
<1>6. Len(tx') <= QueueRoom
  BY <1>1, <1>3, <1>4, CanNumbers
<1> QED BY <1>1, <1>2, <1>3, <1>4, <1>5, <1>6 DEF new

LEMMA ToSetAppend ==
    ASSUME NEW s \in Seq(FrameType), NEW u \in Seq(FrameType)
    PROVE  N!ToSet(s \o u) = N!ToSet(s) \cup N!ToSet(u)
<1>1. /\ s \o u \in Seq(FrameType) /\ Len(s \o u) = Len(s) + Len(u) /\ Len(s) \in Nat /\ Len(u) \in Nat
      /\ \A i \in 1 .. Len(s) + Len(u) : (s \o u)[i] = IF i <= Len(s) THEN s[i] ELSE u[i - Len(s)]
  BY ConcatProperties
<1>2. DOMAIN s = 1 .. Len(s) /\ DOMAIN u = 1 .. Len(u) /\ DOMAIN (s \o u) = 1 .. Len(s) + Len(u)
  BY <1>1, LenProperties
<1> DEFINE w == s \o u
<1> HIDE DEF w
<1>3. ASSUME NEW f \in N!ToSet(w) PROVE f \in N!ToSet(s) \cup N!ToSet(u)
  <2>1. PICK i \in 1 .. Len(s) + Len(u) : f = w[i]
    BY <1>2, <1>3 DEF N!ToSet, w
  <2>2. CASE i <= Len(s)
    <3>1. i \in 1 .. Len(s) /\ f = s[i]
      BY <1>1, <2>1, <2>2 DEF w
    <3> QED BY <1>2, <3>1 DEF N!ToSet
  <2>3. CASE i > Len(s)
    <3>1. i - Len(s) \in 1 .. Len(u) /\ f = u[i - Len(s)]
      BY <1>1, <2>1, <2>3 DEF w
    <3> QED BY <1>2, <3>1 DEF N!ToSet
  <2> QED BY <1>1, <2>1, <2>2, <2>3
<1>4. ASSUME NEW f \in N!ToSet(s) PROVE f \in N!ToSet(w)
  <2>1. PICK i \in 1 .. Len(s) : f = s[i]
    BY <1>2, <1>4 DEF N!ToSet
  <2>2. i \in 1 .. Len(s) + Len(u) /\ f = w[i]
    BY <1>1, <2>1 DEF w
  <2> QED BY <1>2, <2>2 DEF N!ToSet, w
<1>5. ASSUME NEW f \in N!ToSet(u) PROVE f \in N!ToSet(w)
  <2>1. PICK i \in 1 .. Len(u) : f = u[i]
    BY <1>2, <1>5 DEF N!ToSet
  <2> DEFINE j == Len(s) + i
  <2>2. j \in 1 .. Len(s) + Len(u) /\ j - Len(s) = i /\ ~(j <= Len(s))
    BY <1>1, <2>1
  <2>3. f = w[j]
    BY <1>1, <2>1, <2>2 DEF w
  <2> QED BY <1>2, <2>2, <2>3 DEF N!ToSet, w
<1> QED BY <1>3, <1>4, <1>5 DEF w

\* Whatever is not an answer leaves the answers as they were.
LEMMA NoNewAnswer ==
    ASSUME CanInv, N!Next \/ UNCHANGED canVars,
           NEW new \in Seq(FrameType), accepted' = accepted \o new, handled' = handled,
           \A i \in 1 .. Len(new) : new[i].kind # "answer"
    PROVE  AnswersInOrder'
<1>1. /\ accepted \in Seq(FrameType) /\ Len(accepted') = Len(accepted) + Len(new) /\ Len(accepted) \in Nat /\ Len(new) \in Nat
      /\ \A i \in 1 .. Len(accepted) + Len(new) :
            accepted'[i] = IF i <= Len(accepted) THEN accepted[i] ELSE new[i - Len(accepted)]
  BY ConcatProperties DEF CanInv, CanTypes
<1>2. ASSUME NEW i \in Answers' PROVE i \in Answers /\ accepted'[i] = accepted[i]
  <2>1. i \in 1 .. Len(accepted) + Len(new) /\ accepted'[i].kind = "answer"
    BY <1>1 DEF Answers
  <2>2. CASE i <= Len(accepted)
    BY <1>1, <2>1, <2>2 DEF Answers
  <2>3. CASE i > Len(accepted)
    <3>1. i - Len(accepted) \in 1 .. Len(new) /\ accepted'[i] = new[i - Len(accepted)]
      BY <1>1, <2>1, <2>3
    <3> QED BY <2>1, <3>1
  <2> QED BY <1>1, <2>1, <2>2, <2>3
<1>3. \A i \in Answers : accepted[i].n \in Int
  <2>1. \A i \in 1 .. Len(accepted) : accepted[i] \in FrameType
    BY <1>1
  <2> QED BY <2>1 DEF Answers, FrameType
<1>4. \A x \in Int : Before(x) => Before(x)'
  BY QueriesStep DEF CanInv
<1>5. \A i, j \in Answers' : i < j => accepted'[i].n < accepted'[j].n
  BY <1>2 DEF CanInv, AnswersInOrder
<1>6. ASSUME NEW i \in Answers'
      PROVE  \E x \in Int : x = accepted'[i].n /\ Before(x)' /\ accepted'[i] \in N!ToSet(handled')
  <2>1. i \in Answers /\ accepted'[i] = accepted[i]
    BY <1>2
  <2>2. PICK x \in Int : x = accepted[i].n
    BY <1>3, <2>1
  <2>3. Before(accepted[i].n) /\ accepted[i] \in N!ToSet(handled)
    BY <2>1 DEF CanInv, AnswersInOrder
  <2>4. Before(x)'
    BY <1>4, <2>2, <2>3
  <2> QED BY <2>1, <2>2, <2>3, <2>4
<1> QED BY <1>5, <1>6 DEF AnswersInOrder, Before

LEMMA StepNames ==
    \A st \in Successions :
        \/ st[1] = "360" /\ st[2] = "361"
        \/ st[1] = "361" /\ st[2] = "362"
        \/ st[1] = "0AA" /\ st[2] = "0D5"
        \/ st[1] = "204" /\ st[2] = "309"
BY DEF Successions

\* The frames of a round follow on one another.
LEMMA RoundIsWhole ==
    ASSUME NEW protocol \in DOMAIN N!DashFrames, NEW r \in Nat
    PROVE  LET frames == [i \in 1 .. Len(N!DashFrames[protocol]) |->
                             [kind |-> N!DashFrames[protocol][i], service |-> 0, pid |-> 0, n |-> r]]
           IN /\ frames \in Seq(FrameType) /\ \A i \in 1 .. Len(frames) : frames[i].kind # "answer"
              /\ \A st \in Successions : \A k \in 1 .. Len(frames) :
                    frames[k].kind = st[2] => k > 1 /\ frames[k - 1].kind = st[1] /\ frames[k - 1].n = frames[k].n
<1> DEFINE names == N!DashFrames[protocol]
           frames == [i \in 1 .. Len(names) |-> [kind |-> names[i], service |-> 0, pid |-> 0, n |-> r]]
<1>1. names = <<"360", "361", "362">> \/ names = <<"0AA", "0D5">> \/ names = <<"204", "309">>
  BY DEF N!DashFrames
<1> HIDE DEF names
<1>2. /\ Len(names) \in Nat /\ \A i \in 1 .. Len(names) : names[i] \in DashKinds
      /\ \A st \in Successions : \A k \in 1 .. Len(names) : names[k] = st[2] => k > 1 /\ names[k - 1] = st[1]
  <2>1. CASE names = <<"360", "361", "362">>
    <3>1. /\ Len(names) = 3 /\ names[1] = "360" /\ names[2] = "361" /\ names[3] = "362"
          /\ \A k \in 1 .. 3 : k = 1 \/ k = 2 \/ k = 3
      BY <2>1
    <3>2. \A i \in 1 .. Len(names) : names[i] \in DashKinds
      BY <3>1 DEF DashKinds
    <3>3. ASSUME NEW st \in Successions, NEW k \in 1 .. Len(names), names[k] = st[2] PROVE k > 1 /\ names[k - 1] = st[1]
      <4>1. k # 1
        BY <3>1, <3>3, StepNames
      <4>2. k - 1 \in 1 .. 3 /\ k > 1
        BY <3>1, <4>1
      <4> QED BY <3>1, <3>3, <4>1, <4>2, StepNames
    <3> QED BY <3>1, <3>2, <3>3
  <2>2. CASE names = <<"0AA", "0D5">>
    <3>1. /\ Len(names) = 2 /\ names[1] = "0AA" /\ names[2] = "0D5"
          /\ \A k \in 1 .. 2 : k = 1 \/ k = 2
      BY <2>2
    <3>2. \A i \in 1 .. Len(names) : names[i] \in DashKinds
      BY <3>1 DEF DashKinds
    <3>3. ASSUME NEW st \in Successions, NEW k \in 1 .. Len(names), names[k] = st[2] PROVE k > 1 /\ names[k - 1] = st[1]
      <4>1. k # 1
        BY <3>1, <3>3, StepNames
      <4>2. k - 1 \in 1 .. 2 /\ k > 1
        BY <3>1, <4>1
      <4> QED BY <3>1, <3>3, <4>1, <4>2, StepNames
    <3> QED BY <3>1, <3>2, <3>3
  <2>3. CASE names = <<"204", "309">>
    <3>1. /\ Len(names) = 2 /\ names[1] = "204" /\ names[2] = "309"
          /\ \A k \in 1 .. 2 : k = 1 \/ k = 2
      BY <2>3
    <3>2. \A i \in 1 .. Len(names) : names[i] \in DashKinds
      BY <3>1 DEF DashKinds
    <3>3. ASSUME NEW st \in Successions, NEW k \in 1 .. Len(names), names[k] = st[2] PROVE k > 1 /\ names[k - 1] = st[1]
      <4>1. k # 1
        BY <3>1, <3>3, StepNames
      <4>2. k - 1 \in 1 .. 2 /\ k > 1
        BY <3>1, <4>1
      <4> QED BY <3>1, <3>3, <4>1, <4>2, StepNames
    <3> QED BY <3>1, <3>2, <3>3
  <2> QED BY <1>1, <2>1, <2>2, <2>3
<1>3. \A i \in 1 .. Len(names) : [kind |-> names[i], service |-> 0, pid |-> 0, n |-> r] \in FrameType
  BY <1>2 DEF FrameType
<1>4. frames \in Seq(FrameType) /\ Len(frames) = Len(names)
  BY <1>2, <1>3
<1>5. \A i \in 1 .. Len(names) : frames[i].kind = names[i] /\ frames[i].n = r
  OBVIOUS
<1>6. \A k \in 1 .. Len(names) : k > 1 => k - 1 \in 1 .. Len(names)
  BY <1>2
<1> HIDE DEF frames
<1>7. \A i \in 1 .. Len(frames) : frames[i].kind # "answer"
  BY <1>2, <1>4, <1>5 DEF DashKinds
<1>8. \A st \in Successions : \A k \in 1 .. Len(frames) :
          frames[k].kind = st[2] => k > 1 /\ frames[k - 1].kind = st[1] /\ frames[k - 1].n = frames[k].n
  BY <1>2, <1>4, <1>5, <1>6, SMTT(30)
<1> QED BY <1>4, <1>7, <1>8 DEF names, frames

\* So does what is taken of them.
LEMMA PrefixIsWhole ==
    ASSUME NEW frames \in Seq(FrameType), NEW new \in Seq(FrameType), NEW m \in 0 .. Len(frames),
           Len(new) = m, \A i \in 1 .. m : new[i] = frames[i], Whole(frames)
    PROVE  Whole(new)
<1>1. ASSUME NEW st \in Successions, NEW k \in 1 .. Len(new), new[k].kind = st[2]
      PROVE  k > 1 /\ new[k - 1].kind = st[1] /\ new[k - 1].n = new[k].n
  <2>1. k \in 1 .. Len(frames) /\ new[k] = frames[k]
    OBVIOUS
  <2>2. k > 1 /\ frames[k - 1].kind = st[1] /\ frames[k - 1].n = frames[k].n
    BY <1>1, <2>1 DEF Whole
  <2>3. k - 1 \in 1 .. m
    BY <2>2
  <2> QED BY <2>1, <2>2, <2>3
<1> QED BY <1>1 DEF Whole

LEMMA CanQuiet ==
    ASSUME CanInv, N!Next \/ UNCHANGED canVars,
           UNCHANGED <<accepted, handled, rounds>>, bus' \in Seq(FrameType), tx' \in Seq(FrameType),
           bus' \o tx' = accepted, Len(tx') <= QueueRoom, Len(rx') <= QueueRoom
    PROVE  CanInv'
<1>1. accepted' = accepted \o <<>> /\ <<>> \in Seq(FrameType) /\ Len(<<>>) = 0
  BY ConcatEmptySeq DEF CanInv, CanTypes
<1>2. AnswersInOrder'
  <2>1. \A i \in 1 .. Len(<<>>) : <<>>[i].kind # "answer"
    BY <1>1
  <2> QED BY <1>1, <2>1, NoNewAnswer
<1>3. QueriesInOrder'
  BY QueriesStep DEF CanInv
<1>4. CanTypes' /\ N!TakenIsSent' /\ Whole(accepted)'
  BY DEF CanInv, CanTypes, N!TakenIsSent, Whole
<1> QED BY <1>2, <1>3, <1>4 DEF CanInv

LEMMA CanRound ==
    ASSUME CanInv, NEW protocol \in DOMAIN N!DashFrames, N!TransmitAll(protocol)
    PROVE  CanInv'
<1> DEFINE frames == [i \in 1 .. Len(N!DashFrames[protocol]) |->
                         [kind |-> N!DashFrames[protocol][i], service |-> 0, pid |-> 0, n |-> rounds']]
           new == N!Accepted(frames)
<1>1. N!Next \/ UNCHANGED canVars
  BY DEF N!Next
<1>2. /\ rounds' = rounds + 1 /\ rounds' \in Nat /\ N!Transmit(frames) /\ rx' = rx /\ bus' = bus /\ handled' = handled
      /\ Len(rx) <= QueueRoom
  BY DEF N!TransmitAll, CanInv, CanTypes, N!TakenIsSent
<1>3. frames \in Seq(FrameType) /\ (\A i \in 1 .. Len(frames) : frames[i].kind # "answer") /\ Whole(frames)
  <2>1. \A r \in Nat : LET fs == [i \in 1 .. Len(N!DashFrames[protocol]) |->
                             [kind |-> N!DashFrames[protocol][i], service |-> 0, pid |-> 0, n |-> r]]
        IN fs \in Seq(FrameType) /\ (\A i \in 1 .. Len(fs) : fs[i].kind # "answer")
           /\ (\A st \in Successions : \A k \in 1 .. Len(fs) :
                    fs[k].kind = st[2] => k > 1 /\ fs[k - 1].kind = st[1] /\ fs[k - 1].n = fs[k].n)
    BY RoundIsWhole
  <2>2. PICK r \in Nat : r = rounds'
    BY <1>2
  <2> DEFINE fs == [i \in 1 .. Len(N!DashFrames[protocol]) |->
                       [kind |-> N!DashFrames[protocol][i], service |-> 0, pid |-> 0, n |-> r]]
  <2>3. frames = fs
    BY <2>2
  <2>4. /\ fs \in Seq(FrameType) /\ \A i \in 1 .. Len(fs) : fs[i].kind # "answer"
        /\ \A st \in Successions : \A k \in 1 .. Len(fs) :
              fs[k].kind = st[2] => k > 1 /\ fs[k - 1].kind = st[1] /\ fs[k - 1].n = fs[k].n
    BY <2>1
  <2> HIDE DEF fs, frames
  <2> QED BY <2>3, <2>4 DEF Whole
<1> HIDE DEF frames
<1>4. /\ tx' \in Seq(FrameType) /\ accepted' \in Seq(FrameType) /\ bus' \o tx' = accepted' /\ Len(tx') <= QueueRoom
      /\ accepted' = accepted \o new /\ new \in Seq(FrameType)
  BY <1>2, <1>3, TransmitOK
<1>5. PICK m \in 0 .. Len(frames) : Len(new) = m /\ \A i \in 1 .. m : new[i] = frames[i]
  BY <1>3, AcceptedIsPrefix
<1> HIDE DEF new
<1>6. Whole(new) /\ \A i \in 1 .. Len(new) : new[i].kind # "answer"
  <2>1. Whole(new)
    BY <1>3, <1>4, <1>5, PrefixIsWhole
  <2>2. \A i \in 1 .. m : i \in 1 .. Len(frames)
    BY <1>5
  <2> QED BY <1>3, <1>5, <2>1, <2>2
<1>7. Whole(accepted')
  BY <1>4, <1>6, WholeGrows DEF CanInv, CanTypes
<1>8. AnswersInOrder'
  BY <1>1, <1>2, <1>4, <1>6, NoNewAnswer
<1>9. QueriesInOrder'
  BY <1>1, QueriesStep DEF CanInv
<1>10. CanTypes' /\ N!TakenIsSent'
  BY <1>2, <1>4 DEF CanInv, CanTypes, N!TakenIsSent
<1> QED BY <1>7, <1>8, <1>9, <1>10 DEF CanInv, Whole

\* The answer to the query at the head comes after all answers so far and before all that waits.
LEMMA CanAnswer ==
    ASSUME CanInv, N!HandleQuery
    PROVE  CanInv'
<1> DEFINE q == Head(rx)
           answers == IF q.service = 1 /\ q.pid \in N!Handled THEN <<N!Answer(q)>> ELSE <<>>
           new == N!Accepted(answers)
<1>1. N!Next \/ UNCHANGED canVars
  BY DEF N!Next
<1>2. /\ rx # <<>> /\ rx' = Tail(rx) /\ N!Transmit(answers) /\ handled' = handled \o answers
      /\ wire' = wire /\ arrived' = arrived /\ bus' = bus /\ rounds' = rounds
  BY DEF N!HandleQuery
<1>3. QueriesInOrder /\ Queue(rx) /\ Queue(wire)
  BY DEF CanInv, QueriesInOrder
<1>4. /\ q \in QueryType /\ q = rx[1] /\ 1 \in 1 .. Len(rx) /\ q.n \in Nat
      /\ \A i \in 1 .. Len(rx') : q.n < rx'[i].n
      /\ \A i \in 1 .. Len(wire) : q.n < wire[i].n
      /\ q.n <= arrived
  <2>1. /\ q \in QueryType /\ q = rx[1] /\ 1 \in 1 .. Len(rx)
        /\ \A i \in 1 .. Len(rx') : q.n < rx'[i].n
    BY <1>2, <1>3, QueueTail
  <2>2. q.n \in Nat
    BY <2>1 DEF QueryType
  <2> QED BY <2>1, <2>2, <1>3 DEF QueriesInOrder
<1>5. N!Answer(q) \in FrameType /\ N!Answer(q).n = q.n
  <2>1. N!Answer(q) = [kind |-> "answer", service |-> 64 + q.service, pid |-> q.pid, n |-> q.n]
    BY DEF N!Answer
  <2>2. q.service \in Nat /\ q.pid \in Pids /\ q.n \in Nat
    BY <1>4 DEF QueryType
  <2>3. 64 + q.service \in Nat
    BY <2>2
  <2> HIDE DEF q
  <2> QED BY <2>1, <2>2, <2>3 DEF FrameType
<1>6. answers \in Seq(FrameType) /\ (answers = <<>> \/ answers = <<N!Answer(q)>>)
  BY <1>5
<1> HIDE DEF answers, q
<1>7. \A i \in 1 .. Len(answers) : i = 1 /\ answers[i] = N!Answer(q)
  <2>1. CASE answers = <<>>
    <3>1. Len(answers) = 0
      BY <2>1
    <3> QED BY <3>1
  <2>2. CASE answers = <<N!Answer(q)>>
    <3>1. Len(answers) = 1 /\ answers[1] = N!Answer(q)
      BY <2>2
    <3> QED BY <3>1
  <2> QED BY <1>6, <2>1, <2>2
<1>8. /\ tx' \in Seq(FrameType) /\ accepted' \in Seq(FrameType) /\ bus' \o tx' = accepted' /\ Len(tx') <= QueueRoom
      /\ accepted' = accepted \o new /\ new \in Seq(FrameType)
  BY <1>2, <1>6, TransmitOK
<1>9. PICK m \in 0 .. Len(answers) : Len(new) = m /\ \A i \in 1 .. m : new[i] = answers[i]
  BY <1>6, AcceptedIsPrefix
<1> HIDE DEF new
<1>10. \A i \in 1 .. Len(new) : i = 1 /\ new[i] = N!Answer(q) /\ Len(answers) # 0
  <2>1. Len(answers) \in Nat
    BY <1>6
  <2>2. \A i \in 1 .. m : i \in 1 .. Len(answers) /\ Len(answers) # 0
    BY <1>9, <2>1
  <2> QED BY <1>7, <1>9, <2>2
<1>11. /\ accepted \in Seq(FrameType) /\ handled \in Seq(FrameType) /\ Len(accepted) \in Nat /\ Len(new) \in Nat
       /\ Len(accepted') = Len(accepted) + Len(new)
       /\ \A i \in 1 .. Len(accepted) + Len(new) :
             accepted'[i] = IF i <= Len(accepted) THEN accepted[i] ELSE new[i - Len(accepted)]
  BY <1>8, ConcatProperties DEF CanInv, CanTypes
<1>12. handled' \in Seq(FrameType) /\ N!ToSet(handled') = N!ToSet(handled) \cup N!ToSet(answers)
  BY <1>2, <1>6, <1>11, ToSetAppend, ConcatProperties
<1>13. Len(answers) # 0 => N!Answer(q) \in N!ToSet(answers)
  <2>1. ASSUME Len(answers) # 0 PROVE answers[1] = N!Answer(q) /\ 1 \in DOMAIN answers
    <3>1. answers = <<N!Answer(q)>>
      BY <1>6, <2>1
    <3> QED BY <3>1
  <2> QED BY <2>1 DEF N!ToSet
<1>14. \A i \in Answers' : \/ i \in Answers /\ accepted'[i] = accepted[i]
                           \/ i = Len(accepted) + 1 /\ accepted'[i] = N!Answer(q) /\ Len(answers) # 0
  <2> SUFFICES ASSUME NEW i \in Answers'
               PROVE  \/ i \in Answers /\ accepted'[i] = accepted[i]
                      \/ i = Len(accepted) + 1 /\ accepted'[i] = N!Answer(q) /\ Len(answers) # 0
    OBVIOUS
  <2>1. i \in 1 .. Len(accepted) + Len(new) /\ accepted'[i].kind = "answer"
    BY <1>11 DEF Answers
  <2>2. CASE i <= Len(accepted)
    BY <1>11, <2>1, <2>2 DEF Answers
  <2>3. CASE i > Len(accepted)
    <3>1. i - Len(accepted) \in 1 .. Len(new) /\ accepted'[i] = new[i - Len(accepted)]
      BY <1>11, <2>1, <2>3, SMTT(30)
    <3>2. i - Len(accepted) = 1 /\ accepted'[i] = N!Answer(q) /\ Len(answers) # 0
      BY <1>10, <3>1
    <3> QED BY <1>11, <2>1, <3>2
  <2> QED BY <1>11, <2>1, <2>2, <2>3
<1>15. \A i \in Answers : /\ i \in 1 .. Len(accepted) /\ accepted[i].n \in Nat /\ accepted[i].n < q.n
                          /\ Before(accepted[i].n) /\ accepted[i] \in N!ToSet(handled)
  <2>1. \A i \in Answers : i \in 1 .. Len(accepted) /\ accepted[i].n \in Nat
    <3>1. \A i \in 1 .. Len(accepted) : accepted[i] \in FrameType
      BY <1>11
    <3> QED BY <3>1 DEF Answers, FrameType
  <2>2. \A i \in Answers : Before(accepted[i].n) /\ accepted[i] \in N!ToSet(handled)
    BY DEF CanInv, AnswersInOrder
  <2>3. \A i \in Answers : accepted[i].n < rx[1].n
    BY <1>4, <2>2 DEF Before
  <2> QED BY <1>4, <2>1, <2>2, <2>3
<1>16. \A i, j \in Answers' : i < j => accepted'[i].n < accepted'[j].n
  <2> SUFFICES ASSUME NEW i \in Answers', NEW j \in Answers', i < j PROVE accepted'[i].n < accepted'[j].n
    OBVIOUS
  <2>1. CASE j \in Answers /\ accepted'[j] = accepted[j]
    <3>1. i \in Answers /\ accepted'[i] = accepted[i]
      BY <1>11, <1>14, <1>15, <2>1
    <3> QED BY <2>1, <3>1 DEF CanInv, AnswersInOrder
  <2>2. CASE j = Len(accepted) + 1 /\ accepted'[j] = N!Answer(q)
    <3>1. i \in Answers /\ accepted'[i] = accepted[i]
      BY <1>11, <1>14, <2>2
    <3> QED BY <1>5, <1>15, <2>2, <3>1
  <2> QED BY <1>14, <2>1, <2>2
<1>17. ASSUME NEW i \in Answers'
       PROVE  \E x \in Int : x = accepted'[i].n /\ Before(x)' /\ accepted'[i] \in N!ToSet(handled')
  <2>1. \A x \in Int : Before(x) => Before(x)'
    BY <1>1, <1>3, QueriesStep
  <2>2. CASE i \in Answers /\ accepted'[i] = accepted[i]
    <3>1. PICK x \in Int : x = accepted[i].n
      BY <1>15, <2>2
    <3>2. Before(x)
      BY <1>15, <2>2, <3>1
    <3> QED BY <1>12, <1>15, <2>1, <2>2, <3>1, <3>2
  <2>3. CASE accepted'[i] = N!Answer(q) /\ Len(answers) # 0
    <3>1. PICK x \in Int : x = q.n
      BY <1>4
    <3>2. Before(x)'
      BY <1>2, <1>4, <3>1 DEF Before
    <3> QED BY <1>5, <1>12, <1>13, <2>3, <3>1, <3>2
  <2> QED BY <1>14, <2>2, <2>3
<1>18. AnswersInOrder'
  BY <1>16, <1>17 DEF AnswersInOrder, Before
<1>19. Whole(accepted')
  <2>1. Whole(new)
    <3>1. ASSUME NEW st \in Successions, NEW k \in 1 .. Len(new), new[k].kind = st[2] PROVE FALSE
      <4>1. new[k] = N!Answer(q)
        BY <1>10
      <4>2. N!Answer(q).kind = "answer"
        BY DEF N!Answer
      <4>3. st[2] # "answer"
        BY StepNames
      <4> QED BY <3>1, <4>1, <4>2, <4>3
    <3> QED BY <3>1 DEF Whole
  <2> QED BY <1>8, <1>11, <2>1, WholeGrows DEF CanInv
<1>20. QueriesInOrder'
  BY <1>1, <1>3, QueriesStep
<1>21. CanTypes' /\ N!TakenIsSent'
  <2>1. Len(rx') <= QueueRoom
    <3>1. rx \in Seq(QueryType)
      BY <1>3 DEF Queue
    <3>2. Len(rx') = Len(rx) - 1 /\ Len(rx) \in Nat
      BY <1>2, <3>1
    <3>3. Len(rx) <= QueueRoom
      BY DEF CanInv, N!TakenIsSent
    <3> QED BY <3>2, <3>3, CanNumbers
  <2> QED BY <1>2, <1>8, <1>12, <2>1 DEF CanInv, CanTypes, N!TakenIsSent
<1> QED BY <1>18, <1>19, <1>20, <1>21 DEF CanInv, Whole

\* The head of the queue may as well stand at the end of what is before it.
LEMMA MoveOne ==
    ASSUME NEW S, NEW s \in Seq(S), NEW t \in Seq(S), t # <<>>
    PROVE  Append(s, Head(t)) \o Tail(t) = s \o t
<1>1. /\ Head(t) = t[1] /\ Head(t) \in S /\ Len(t) \in Nat /\ Len(t) > 0
      /\ Tail(t) \in Seq(S) /\ Len(Tail(t)) = Len(t) - 1 /\ \A i \in 1 .. Len(t) - 1 : Tail(t)[i] = t[i + 1]
  OBVIOUS
<1> DEFINE a == Append(s, Head(t))
<1>2. /\ a \in Seq(S) /\ Len(a) = Len(s) + 1 /\ Len(s) \in Nat /\ a[Len(s) + 1] = t[1]
      /\ \A i \in 1 .. Len(s) : a[i] = s[i]
  BY <1>1
<1> HIDE DEF a
<1>3. /\ a \o Tail(t) \in Seq(S) /\ Len(a \o Tail(t)) = Len(a) + Len(Tail(t))
      /\ \A i \in 1 .. Len(a) + Len(Tail(t)) :
            (a \o Tail(t))[i] = IF i <= Len(a) THEN a[i] ELSE Tail(t)[i - Len(a)]
  BY <1>1, <1>2, ConcatProperties
<1>4. /\ s \o t \in Seq(S) /\ Len(s \o t) = Len(s) + Len(t)
      /\ \A i \in 1 .. Len(s) + Len(t) : (s \o t)[i] = IF i <= Len(s) THEN s[i] ELSE t[i - Len(s)]
  BY ConcatProperties
<1>5. Len(a) + Len(Tail(t)) = Len(s) + Len(t)
  BY <1>1, <1>2
<1>6. ASSUME NEW i \in 1 .. Len(s) + Len(t) PROVE (a \o Tail(t))[i] = (s \o t)[i]
  <2>1. CASE i <= Len(s)
    BY <1>2, <1>3, <1>4, <1>5, <2>1
  <2>2. CASE i = Len(s) + 1
    BY <1>2, <1>3, <1>4, <1>5, <2>2
  <2>3. CASE i > Len(s) + 1
    <3>1. i - Len(a) \in 1 .. Len(t) - 1 /\ (i - Len(a)) + 1 = i - Len(s) /\ ~(i <= Len(a)) /\ ~(i <= Len(s))
      BY <1>1, <1>2, <2>3
    <3> QED BY <1>1, <1>3, <1>4, <1>5, <3>1
  <2> QED BY <1>2, <2>1, <2>2, <2>3
<1> QED BY <1>3, <1>4, <1>5, <1>6, SeqEqual DEF a

LEMMA CanStep ==
    ASSUME CanInv, N!Next \/ UNCHANGED canVars
    PROVE  CanInv'
<1>1. /\ bus \in Seq(FrameType) /\ tx \in Seq(FrameType) /\ accepted \in Seq(FrameType) /\ bus \o tx = accepted
      /\ Len(tx) <= QueueRoom /\ Len(rx) <= QueueRoom /\ rx \in Seq(QueryType) /\ QueriesInOrder
  BY DEF CanInv, CanTypes, N!TakenIsSent, QueriesInOrder, Queue
<1>2. UNCHANGED <<accepted, handled, rounds, bus, tx>> /\ Len(rx') <= QueueRoom => CanInv'
  BY <1>1, CanQuiet
<1>3. CASE N!Write
  <2>1. /\ tx # <<>> /\ bus' = Append(bus, Head(tx)) /\ tx' = Tail(tx)
        /\ UNCHANGED <<accepted, handled, rounds>> /\ rx' = rx
    BY <1>3 DEF N!Write
  <2>2. bus' \in Seq(FrameType) /\ tx' \in Seq(FrameType) /\ Len(tx') = Len(tx) - 1 /\ Len(tx) \in Nat
    BY <1>1, <2>1
  <2>3. bus' \o tx' = accepted
    BY <1>1, <2>1, MoveOne
  <2>4. Len(tx') <= QueueRoom /\ Len(rx') <= QueueRoom
    BY <1>1, <2>1, <2>2, CanNumbers
  <2> QED BY <2>1, <2>2, <2>3, <2>4, CanQuiet
<1>4. CASE N!Read
  <2>1. /\ UNCHANGED <<accepted, handled, rounds, bus, tx>> /\ wire # <<>>
        /\ rx' = IF Len(rx) < QueueRoom THEN Append(rx, Head(wire)) ELSE rx
    BY <1>4 DEF N!Read
  <2>2. Len(rx') <= QueueRoom
    BY <1>1, <2>1, CanNumbers
  <2> QED BY <1>2, <2>1, <2>2
<1>5. CASE N!ProcessRx
  <2>1. UNCHANGED <<accepted, handled, rounds, bus, tx>> /\ rx' = <<>>
    BY <1>5 DEF N!ProcessRx
  <2>2. Len(rx') <= QueueRoom
    BY <2>1, CanNumbers
  <2> QED BY <1>2, <2>1, <2>2
<1>6. ASSUME NEW service \in {1, 2}, NEW pid3 \in Pids, N!Arrive(service, pid3) PROVE CanInv'
  BY <1>1, <1>2, <1>6 DEF N!Arrive
<1>7. CASE N!Await \/ N!BusError \/ UNCHANGED canVars
  BY <1>1, <1>2, <1>7 DEF N!Await, N!BusError, canVars
<1> QED
  BY <1>3, <1>4, <1>5, <1>6, <1>7, CanAnswer, CanRound DEF N!Next

LEMMA CanInit == PartsInit => CanInv
<1> SUFFICES ASSUME N!Init PROVE CanInv
  BY DEF PartsInit
<1>1. /\ bus = <<>> /\ tx = <<>> /\ accepted = <<>> /\ handled = <<>> /\ rx = <<>> /\ wire = <<>>
      /\ arrived = 0 /\ rounds = 0
  BY DEF N!Init
<1>2. CanTypes /\ N!TakenIsSent
  <2>1. bus \o tx = <<>>
    BY <1>1
  <2>2. Len(tx) = 0 /\ Len(rx) = 0
    BY <1>1
  <2>3. CanTypes
    BY <1>1 DEF CanTypes
  <2> QED BY <1>1, <2>1, <2>2, <2>3, CanNumbers DEF N!TakenIsSent
<1>3. QueriesInOrder
  BY <1>1 DEF QueriesInOrder, Queue
<1>4. Len(accepted) = 0
  BY <1>1
<1>5. AnswersInOrder /\ Whole(accepted)
  BY <1>4 DEF AnswersInOrder, Answers, Whole
<1> QED BY <1>2, <1>3, <1>5 DEF CanInv

LEMMA CanOK == CanInv => N!CanHolds
<1> SUFFICES ASSUME CanInv PROVE N!CanHolds
  OBVIOUS
<1>1. N!AnswersFollowQueries
  BY DEF CanInv, AnswersInOrder, Answers, Before, N!AnswersFollowQueries
<1>2. Whole(bus)
  <2>1. bus \in Seq(FrameType) /\ tx \in Seq(FrameType) /\ accepted \in Seq(FrameType) /\ accepted = bus \o tx
    BY DEF CanInv, CanTypes, N!TakenIsSent
  <2> QED BY <2>1, WholePrefix DEF CanInv
<1>3. N!RoundsAreWhole
  <2> SUFFICES ASSUME NEW p \in DOMAIN N!DashFrames, NEW i \in 2 .. Len(N!DashFrames[p]),
                      NEW k \in 1 .. Len(bus), bus[k].kind = N!DashFrames[p][i]
               PROVE  k > 1 /\ bus[k - 1].kind = N!DashFrames[p][i - 1] /\ bus[k - 1].n = bus[k].n
    BY DEF N!RoundsAreWhole
  <2> DEFINE names == N!DashFrames[p]
             st == <<names[i - 1], names[i]>>
  <2>1. names = <<"360", "361", "362">> \/ names = <<"0AA", "0D5">> \/ names = <<"204", "309">>
    BY DEF N!DashFrames
  <2> HIDE DEF names
  <2>2. st \in Successions
    <3>1. CASE names = <<"360", "361", "362">>
      <4>1. i = 2 \/ i = 3
        BY <3>1 DEF names
      <4> QED BY <3>1, <4>1 DEF Successions
    <3>2. CASE names = <<"0AA", "0D5">>
      <4>1. i = 2
        BY <3>2 DEF names
      <4> QED BY <3>2, <4>1 DEF Successions
    <3>3. CASE names = <<"204", "309">>
      <4>1. i = 2
        BY <3>3 DEF names
      <4> QED BY <3>3, <4>1 DEF Successions
    <3> QED BY <2>1, <3>1, <3>2, <3>3
  <2>3. st[1] = names[i - 1] /\ st[2] = names[i]
    OBVIOUS
  <2> HIDE DEF st
  <2>4. bus[k].kind = st[2]
    BY <2>3 DEF names
  <2> QED BY <1>2, <2>2, <2>3, <2>4 DEF Whole, names
<1> QED BY <1>1, <1>3 DEF CanInv, N!CanHolds

\* Frames leave in the order they were taken in, a round that began is whole unless it was broken off,
\* and answers leave in the order of their queries (can, and can.rs of the boards).
THEOREM FramesInOrder == PartsSpec => [](N!CanHolds)
<1> DEFINE Inv == CanInv
<1>1. PartsInit => Inv
  BY CanInit
<1>2. Inv /\ [PartsNext]_allVars => Inv'
  BY CanStep, PartsAreApart
<1>3. Inv => N!CanHolds
  BY CanOK
<1> HIDE DEF Inv
<1> QED
  BY <1>1, <1>2, <1>3, PTL DEF PartsSpec

----------------------------------------------------------------------------
(* Fields of frames, and conversions of readings.                          *)

\* A field takes a range of values, none of them below its zero.
IsField(f) ==
    /\ f.low \in Int /\ f.high \in Int /\ f.offset \in Int /\ f.num \in Nat \ {0} /\ f.den \in Nat \ {0}
    /\ f.low <= f.high /\ f.low + f.offset >= 0

LEMMA FieldsAreFields == \A name \in DOMAIN N!Fields : IsField(N!Fields[name])
BY DEF N!Fields, N!Field, IsField

LEMMA LastOK == \A f : N!LastOf(f) \in Nat
BY DEF N!LastOf

Held(f, v) == IF v < f.low THEN f.low ELSE IF v > f.high THEN f.high ELSE v
Scaled(f, v) == ((Held(f, v) + f.offset) * f.num) \div (f.den * 1000)

LEMMA EncodeIs ==
    ASSUME NEW f, IsField(f), NEW v \in Int
    PROVE  /\ Held(f, v) \in Int /\ Held(f, v) + f.offset \in Nat /\ (Held(f, v) + f.offset) * f.num \in Nat
           /\ f.den * 1000 \in Nat \ {0}
           /\ Scaled(f, v) \in Nat
           /\ N!Encode(f, v) = IF Scaled(f, v) <= N!LastOf(f) THEN Scaled(f, v) ELSE N!LastOf(f)
<1>1. /\ f.low \in Int /\ f.high \in Int /\ f.offset \in Int /\ f.num \in Nat \ {0} /\ f.den \in Nat \ {0}
      /\ f.low <= f.high /\ f.low + f.offset >= 0
  BY DEF IsField
<1> DEFINE held == N!Min({N!Max({v, f.low}), f.high})
<1>2. held = Held(f, v) /\ Held(f, v) \in Int /\ Held(f, v) >= f.low
  <2> DEFINE most == N!Max({v, f.low})
  <2>1. most \in Int /\ most = IF v <= f.low THEN f.low ELSE v
    BY <1>1, LeastOfTwo
  <2> HIDE DEF most
  <2>2. N!Min({most, f.high}) = IF most <= f.high THEN most ELSE f.high
    BY <1>1, <2>1, LeastOfTwo
  <2>3. held = IF most <= f.high THEN most ELSE f.high
    BY <2>2 DEF most
  <2> HIDE DEF held
  <2> QED BY <1>1, <2>1, <2>3 DEF Held
<1>3. Held(f, v) + f.offset \in Nat
  BY <1>1, <1>2
<1>4. (Held(f, v) + f.offset) * f.num \in Nat /\ f.den * 1000 \in Nat \ {0}
  BY <1>1, <1>3
<1>5. Scaled(f, v) \in Int /\ 0 <= Scaled(f, v)
  <2> DEFINE x == (Held(f, v) + f.offset) * f.num  m == f.den * 1000
  <2>1. x \in Nat /\ m \in Nat \ {0}
    BY <1>4
  <2> HIDE DEF x, m
  <2>2. x \div m \in Int /\ m * 0 <= x
    BY <2>1
  <2>3. 0 <= x \div m
    BY <2>1, <2>2, QuotientBounds
  <2> QED BY <2>2, <2>3 DEF Scaled, x, m
<1>6. N!Encode(f, v) = N!Min({N!Max({Scaled(f, v), 0}), N!LastOf(f)})
  <2>1. N!Encode(f, v) = N!Min({N!Max({((held + f.offset) * f.num) \div (f.den * 1000), 0}), N!LastOf(f)})
    BY DEF N!Encode
  <2> HIDE DEF held
  <2> QED BY <1>2, <2>1 DEF Scaled
<1>7. N!Encode(f, v) = IF Scaled(f, v) <= N!LastOf(f) THEN Scaled(f, v) ELSE N!LastOf(f)
  <2>1. N!Max({Scaled(f, v), 0}) = Scaled(f, v)
    BY <1>5, LeastOfTwo
  <2> QED BY <1>5, <1>6, <2>1, LeastOfTwo, LastOK
<1> QED BY <1>2, <1>3, <1>4, <1>5, <1>7

LEMMA FieldGrows ==
    ASSUME NEW f, IsField(f), NEW v \in Int, NEW w \in Int, v <= w
    PROVE  N!Encode(f, v) <= N!Encode(f, w)
<1> DEFINE m == f.den * 1000
           a == Held(f, v) + f.offset
           b == Held(f, w) + f.offset
<1>1. a \in Nat /\ b \in Nat /\ m \in Nat \ {0} /\ f.num \in Nat
  BY EncodeIs DEF IsField
<1>2. a <= b
  BY DEF IsField, Held
<1> HIDE DEF a, b, m
<1>3. a * f.num \in Int /\ b * f.num \in Int /\ a * f.num <= b * f.num
  BY <1>1, <1>2
<1>4. Scaled(f, v) <= Scaled(f, w)
  BY <1>1, <1>3, QuotientGrows DEF Scaled, a, b, m
<1> QED BY <1>4, EncodeIs, LastOK

LEMMA Thousands ==
    ASSUME NEW i \in Int, NEW d \in Int
    PROVE  i * d * 1000 = (d * 1000) * i /\ (i + 1) * d * 1000 = (d * 1000) * i + d * 1000
OBVIOUS

LEMMA FieldShows ==
    ASSUME NEW f, IsField(f), NEW v \in f.low .. f.high, N!Encode(f, v) < N!LastOf(f)
    PROVE  N!Shown(f, N!Encode(f, v)) <= v /\ v <= N!Shown(f, N!Encode(f, v) + 1) + 1
<1> DEFINE m == f.den * 1000
           a == v + f.offset
           x == a * f.num
           e == x \div m
<1>1. v \in Int /\ f.num \in Nat \ {0} /\ f.den \in Nat \ {0} /\ f.offset \in Int /\ a \in Int
  BY DEF IsField
<1>2. Held(f, v) = v
  BY DEF Held, IsField
<1>3. e = Scaled(f, v) /\ e \in Nat /\ m \in Nat \ {0} /\ x \in Nat
  BY <1>1, <1>2, EncodeIs DEF Scaled
<1>4. N!Encode(f, v) = e
  BY <1>1, <1>3, EncodeIs, LastOK
<1>5. m * e \in Int /\ m * e <= x /\ x < m * e + m
  <2> HIDE DEF x, m
  <2> QED BY <1>3, Quotient
<1> HIDE DEF e
<1>6. e * f.den * 1000 = m * e /\ (e + 1) * f.den * 1000 = m * e + m
  <2> DEFINE d == f.den
  <2>1. e \in Int /\ d \in Int
    BY <1>1, <1>3
  <2> HIDE DEF d
  <2>2. e * d * 1000 = (d * 1000) * e /\ (e + 1) * d * 1000 = (d * 1000) * e + d * 1000
    BY <2>1, Thousands
  <2> QED BY <2>2 DEF d
<1>7. N!Shown(f, e) = (m * e) \div f.num - f.offset /\ N!Shown(f, e + 1) = (m * e + m) \div f.num - f.offset
  BY <1>6 DEF N!Shown
<1>8. x = f.num * a
  BY <1>1
<1> HIDE DEF x, m, a
<1>9. (m * e) \div f.num <= a
  <2>1. m * e \in Int /\ m * e < f.num * (a + 1)
    BY <1>1, <1>5, <1>8
  <2>2. (m * e) \div f.num < a + 1
    BY <1>1, <2>1, QuotientBounds
  <2>3. (m * e) \div f.num \in Int
    BY <1>1, <1>5
  <2> QED BY <1>1, <2>2, <2>3
<1>10. a <= (m * e + m) \div f.num
  <2>1. m * e + m \in Int /\ f.num * a <= m * e + m
    BY <1>3, <1>5, <1>8
  <2> QED BY <1>1, <2>1, QuotientBounds
<1>11. (m * e) \div f.num \in Int /\ (m * e + m) \div f.num \in Int
  BY <1>1, <1>3, <1>5
<1> QED BY <1>1, <1>4, <1>7, <1>9, <1>10, <1>11 DEF a

LEMMA FieldsOK == N!FieldsAreTrue
<1> SUFFICES ASSUME NEW name \in DOMAIN N!Fields, NEW v \in Values, NEW w \in Values
             PROVE  LET f == N!Fields[name] IN
                    /\ v <= w => N!Encode(f, v) <= N!Encode(f, w)
                    /\ v \in f.low .. f.high /\ N!Encode(f, v) < N!LastOf(f) =>
                          /\ N!Shown(f, N!Encode(f, v)) <= v
                          /\ v <= N!Shown(f, N!Encode(f, v) + 1) + 1
  BY DEF N!FieldsAreTrue
<1> DEFINE f == N!Fields[name]
<1>1. IsField(f) /\ v \in Int /\ w \in Int
  BY FieldsAreFields, CanNumbers
<1> HIDE DEF f
<1> QED BY <1>1, FieldGrows, FieldShows DEF f
----------------------------------------------------------------------------
(* Readings.                                                               *)

LEMMA ReadingNumbers ==
    /\ Raw \subseteq Nat /\ MaxPasses \in Nat /\ D!Scale \in Nat /\ Volts \subseteq Int /\ None \notin Int
BY PartsAssumption DEF D!Parameters

LEMMA EndsOfTwo ==
    ASSUME NEW a \in Int, NEW b \in Int
    PROVE  /\ D!Min({a, b}) \in Int /\ D!Min({a, b}) = (IF a <= b THEN a ELSE b)
           /\ D!Max({a, b}) \in Int /\ D!Max({a, b}) = (IF a <= b THEN b ELSE a)
<1>1. D!Min({a, b}) = N!Min({a, b}) /\ D!Max({a, b}) = N!Max({a, b})
  BY DEF D!Min, N!Min, D!Max, N!Max
<1> QED BY <1>1, LeastOfTwo

LEMMA WithinOK ==
    ASSUME NEW v \in Int, NEW low \in Int, NEW high \in Int, low <= high
    PROVE  D!Within(v, low, high) = (IF v < low THEN low ELSE IF v > high THEN high ELSE v)
<1> DEFINE most == D!Max({v, low})
<1>1. most \in Int /\ most = IF v <= low THEN low ELSE v
  BY EndsOfTwo
<1> HIDE DEF most
<1>2. D!Min({most, high}) = IF most <= high THEN most ELSE high
  BY <1>1, EndsOfTwo
<1>3. D!Within(v, low, high) = D!Min({most, high})
  BY DEF D!Within, most
<1> QED BY <1>1, <1>2, <1>3

LEMMA WithinLambda ==
    ASSUME NEW v \in Int
    PROVE  D!Within(v, 500, 2000) = (IF v < 500 THEN 500 ELSE IF v > 2000 THEN 2000 ELSE v)
<1>1. 500 \in Int /\ 2000 \in Int /\ 500 <= 2000
  OBVIOUS
<1> QED BY <1>1, WithinOK

LEMMA OverIsWhole ==
    ASSUME NEW x \in Int, NEW span \in Int, span # 0
    PROVE  D!Over(x, span) \in Int
<1>1. CASE span > 0
  <2>1. span \in Nat \ {0} /\ D!Over(x, span) = x \div span
    BY <1>1 DEF D!Over
  <2> QED BY <2>1, Quotient
<1>2. CASE span < 0
  <2>1. -span \in Nat \ {0} /\ -x \in Int /\ D!Over(x, span) = (-x) \div (-span)
    BY <1>2, SMTT(30) DEF D!Over
  <2> QED BY <2>1, Quotient
<1> QED BY <1>1, <1>2

\* Lambda is within what the sensor can mean, whichever way its line runs.
LEMMA WidebandOK ==
    ASSUME NEW lean \in Int, NEW rich \in Int, NEW v \in Int
    PROVE  LET l == D!Wideband(lean, rich, v) IN l = None \/ (l \in Int /\ 500 <= l /\ l <= 2000)
<1> DEFINE stoich == (lean + rich) \div 2
           lambda == IF v <= stoich
                     THEN IF stoich = lean THEN 1000 ELSE 2000 - D!Over((v - lean) * 1000, stoich - lean)
                     ELSE IF rich = stoich THEN 1000 ELSE 1000 - D!Over((v - stoich) * 500, rich - stoich)
<1>1. stoich \in Int
  OBVIOUS
<1>2. D!Wideband(lean, rich, v) = IF v \in 0 .. 5000 THEN D!Within(lambda, 500, 2000) ELSE None
  BY DEF D!Wideband
<1> HIDE DEF stoich
<1>3. lambda \in Int
  <2>1. stoich # lean => D!Over((v - lean) * 1000, stoich - lean) \in Int
    BY <1>1, OverIsWhole
  <2>2. rich # stoich => D!Over((v - stoich) * 500, rich - stoich) \in Int
    BY <1>1, OverIsWhole
  <2> QED BY <2>1, <2>2
<1> HIDE DEF lambda
<1>4. D!Within(lambda, 500, 2000) \in Int /\ 500 <= D!Within(lambda, 500, 2000) /\ D!Within(lambda, 500, 2000) <= 2000
  BY <1>3, WithinLambda
<1> QED BY <1>2, <1>4

\* With the lean end at no volts and the rich one at 5.
LEMMA WidebandIs ==
    ASSUME NEW v \in Int, 0 <= v, v <= 5000
    PROVE  D!Wideband(0, 5000, v) =
               IF v <= 2500 THEN 2000 - (v * 1000) \div 2500 ELSE 1000 - ((v - 2500) * 500) \div 2500
<1> DEFINE lambda == IF v <= 2500 THEN 2000 - (v * 1000) \div 2500 ELSE 1000 - ((v - 2500) * 500) \div 2500
<1>1. (0 + 5000) \div 2 = 2500 /\ v - 0 = v /\ 2500 - 0 = 2500 /\ 5000 - 2500 = 2500
  OBVIOUS
<1>2. D!Wideband(0, 5000, v) = D!Within(lambda, 500, 2000)
  BY <1>1 DEF D!Wideband, D!Over
<1>3. lambda \in Int /\ ~(lambda < 500) /\ ~(lambda > 2000)
  OBVIOUS
<1> HIDE DEF lambda
<1>4. D!Within(lambda, 500, 2000) = lambda
  BY <1>3, WithinLambda
<1> QED BY <1>2, <1>4 DEF lambda

LEMMA WidebandFalls ==
    ASSUME NEW a \in Int, NEW b \in Int, 0 <= a, a <= b, b <= 5000
    PROVE  D!Wideband(0, 5000, b) <= D!Wideband(0, 5000, a)
<1> DEFINE la == (a * 1000) \div 2500  ha == ((a - 2500) * 500) \div 2500
           lb == (b * 1000) \div 2500  hb == ((b - 2500) * 500) \div 2500
<1>1. /\ la \in Int /\ lb \in Int /\ ha \in Int /\ hb \in Int /\ la <= lb /\ ha <= hb
      /\ (a <= 2500 => la <= 1000) /\ (b <= 2500 => lb <= 1000) /\ (a >= 2500 => 0 <= ha) /\ (b >= 2500 => 0 <= hb)
  OBVIOUS
<1>2. /\ D!Wideband(0, 5000, a) = IF a <= 2500 THEN 2000 - la ELSE 1000 - ha
      /\ D!Wideband(0, 5000, b) = IF b <= 2500 THEN 2000 - lb ELSE 1000 - hb
  BY WidebandIs
<1> HIDE DEF la, lb, ha, hb
<1>3. (IF b <= 2500 THEN 2000 - lb ELSE 1000 - hb) <= (IF a <= 2500 THEN 2000 - la ELSE 1000 - ha)
  BY <1>1
<1> QED BY <1>2, <1>3

LEMMA ShareGrows ==
    ASSUME NEW a \in Int, NEW b \in Int, 500 <= a, a <= b, b <= 4500
    PROVE  D!Share(500, 4500, 7000, a) <= D!Share(500, 4500, 7000, b)
<1>1. D!Share(500, 4500, 7000, a) = ((a - 500) * 7000) \div 4000 /\ D!Share(500, 4500, 7000, b) = ((b - 500) * 7000) \div 4000
  BY DEF D!Share
<1>2. (a - 500) * 7000 <= (b - 500) * 7000
  OBVIOUS
<1> QED BY <1>1, <1>2, QuotientGrows

\* A larger part of the supply is a larger resistance.
LEMMA ResistanceGrows ==
    ASSUME NEW a \in Int, NEW b \in Int, 1 <= a, a <= b, b <= 4999
    PROVE  D!Resistance(a, 5000, 2700) <= D!Resistance(b, 5000, 2700)
<1> DEFINE m == 5000 - a  n == 5000 - b  x == 2700 * a  y == 2700 * b  q == x \div m
<1>1. m \in Nat \ {0} /\ n \in Nat \ {0} /\ n <= m /\ x \in Nat /\ y \in Nat /\ x <= y
  OBVIOUS
<1>2. D!Resistance(a, 5000, 2700) = q /\ D!Resistance(b, 5000, 2700) = y \div n
  BY DEF D!Resistance
<1> HIDE DEF m, n, x, y
<1>3. q \in Int /\ m * q \in Int /\ m * q <= x
  BY <1>1, Quotient
<1>4. 0 <= q
  <2>1. m * 0 <= x
    BY <1>1
  <2> QED BY <1>1, <2>1, QuotientBounds
<1> HIDE DEF q
<1>5. n * q <= m * q /\ n * q \in Int
  BY <1>1, <1>3, <1>4
<1>6. n * q <= y
  <2> DEFINE u == n * q  w == m * q
  <2>1. u \in Int /\ w \in Int /\ u <= w /\ w <= x /\ x <= y /\ x \in Int /\ y \in Int
    BY <1>1, <1>3, <1>5
  <2> HIDE DEF u, w
  <2>2. u <= y
    BY <2>1
  <2> QED BY <2>2 DEF u
<1>7. q <= y \div n
  BY <1>1, <1>3, <1>6, QuotientBounds
<1> QED BY <1>2, <1>7

LEMMA LinearEnds ==
    ASSUME NEW a \in Int, NEW b \in Int, a # b
    PROVE  D!Linear(a, 100, b, 900, 0, 1000, a) = 100 /\ D!Linear(a, 100, b, 900, 0, 1000, b) = 900
<1> DEFINE s == b - a
<1>1. s \in Int /\ s # 0 /\ a - a = 0 /\ 900 - 100 = 800
  OBVIOUS
<1> HIDE DEF s
<1>2. D!Over(800 * 0, s) = 0 /\ D!Over(800 * s, s) = 800
  <2>1. CASE s > 0
    <3>1. s \in Nat \ {0} /\ s * 0 = 800 * 0 /\ s * 800 = 800 * s /\ 800 * 0 \in Int /\ 800 * s \in Int
      BY <1>1, <2>1
    <3>2. (800 * 0) \div s = 0 /\ (800 * s) \div s = 800
      BY <3>1, QuotientBounds
    <3> QED BY <2>1, <3>2 DEF D!Over
  <2>2. CASE s < 0
    <3> DEFINE m == -s
    <3>1. m \in Nat \ {0} /\ m * 0 = -(800 * 0) /\ m * 800 = -(800 * s) /\ -(800 * 0) \in Int /\ -(800 * s) \in Int
      BY <1>1, <2>2
    <3> HIDE DEF m
    <3>2. (-(800 * 0)) \div m = 0 /\ (-(800 * s)) \div m = 800
      BY <3>1, QuotientBounds
    <3>3. ~(s > 0)
      BY <1>1, <2>2
    <3> QED BY <3>2, <3>3 DEF D!Over, m
  <2> QED BY <1>1, <2>1, <2>2
<1>3. /\ D!Linear(a, 100, b, 900, 0, 1000, a) = LET out == 100 + D!Over(800 * 0, s) IN IF out < 0 \/ out > 1000 THEN None ELSE out
      /\ D!Linear(a, 100, b, 900, 0, 1000, b) = LET out == 100 + D!Over(800 * s, s) IN IF out < 0 \/ out > 1000 THEN None ELSE out
  BY <1>1 DEF D!Linear, s
<1> QED BY <1>2, <1>3

LEMMA ConversionsOK == D!ConversionsHold
<1>1. \A a, b \in Volts : a \in Int /\ b \in Int
  BY ReadingNumbers
<1>2. ASSUME NEW a \in Volts, NEW b \in Volts, a <= b
      PROVE  /\ 0 <= a /\ b <= 5000 => D!Wideband(0, 5000, b) <= D!Wideband(0, 5000, a)
             /\ 500 <= a /\ b <= 4500 => D!Share(500, 4500, 7000, a) <= D!Share(500, 4500, 7000, b)
             /\ 1 <= a /\ b <= 4999 => D!Resistance(a, 5000, 2700) <= D!Resistance(b, 5000, 2700)
  BY <1>1, <1>2, WidebandFalls, ShareGrows, ResistanceGrows
<1>3. D!Wideband(0, 5000, 0) = 2000 /\ D!Wideband(0, 5000, 2500) = 1000 /\ D!Wideband(0, 5000, 5000) = 500
  <2>1. (0 * 1000) \div 2500 = 0 /\ (2500 * 1000) \div 2500 = 1000 /\ ((5000 - 2500) * 500) \div 2500 = 500
    OBVIOUS
  <2>2. D!Wideband(0, 5000, 0) = 2000 - (0 * 1000) \div 2500 /\ D!Wideband(0, 5000, 2500) = 2000 - (2500 * 1000) \div 2500
        /\ D!Wideband(0, 5000, 5000) = 1000 - ((5000 - 2500) * 500) \div 2500
    BY WidebandIs
  <2> QED BY <2>1, <2>2
<1>4. D!Share(500, 4500, 7000, 500) = 0 /\ D!Share(500, 4500, 7000, 4500) = 7000
  BY DEF D!Share
<1>5. \A a, b \in Volts : a # b =>
          /\ D!Linear(a, 100, b, 900, 0, 1000, a) = 100 /\ D!Linear(a, 100, b, 900, 0, 1000, b) = 900
  BY <1>1, LinearEnds
<1>6. D!LambdaIsPlausible
  <2> SUFFICES ASSUME NEW v \in Volts, NEW lean \in {0, 1000, 2500, 5000}, NEW rich \in {0, 1000, 2500, 5000}
               PROVE  LET l == D!Wideband(lean, rich, v) IN l = None \/ (l \in Int /\ 500 <= l /\ l <= 2000)
    BY DEF D!LambdaIsPlausible
  <2>1. v \in Int /\ lean \in Int /\ rich \in Int
    BY <1>1
  <2> QED BY <2>1, WidebandOK
<1> QED BY <1>2, <1>3, <1>4, <1>5, <1>6 DEF D!ConversionsHold, D!ConversionsAreOrdered

\* For every voltage, and for every value of a field, a conversion is in order, in its range and true at
\* the points its sensor's or its frame's description gives (sensors/mod.rs, can).
THEOREM ConversionsSound == ConversionsHold
  BY ConversionsOK, FieldsOK DEF ConversionsHold

----------------------------------------------------------------------------
(* A filtered reading moves from where it was towards the sample: what     *)
(* bounds both bounds it still.                                            *)

LEMMA FilterIs ==
    ASSUME NEW a \in {1, 2, 4, 6}, NEW s \in Int, NEW f \in Int, NEW scale \in Nat
    PROVE  /\ (a * s * scale + (20 - a) * f) \div 20 \in Int
           /\ \A b \in Int : b <= s /\ b * scale <= f => b * scale <= (a * s * scale + (20 - a) * f) \div 20
           /\ \A b \in Int : s <= b /\ f <= b * scale => (a * s * scale + (20 - a) * f) \div 20 <= b * scale
<1> DEFINE q == s * scale
           x == a * s * scale + (20 - a) * f
<1>1. q \in Int /\ a * s * scale = a * q
  BY a = 1 \/ a = 2 \/ a = 4 \/ a = 6
<1>2. x = a * q + (20 - a) * f
  BY <1>1
<1> HIDE DEF q, x
<1>3. x \in Int
  BY <1>1, <1>2
<1>4. 20 \in Nat \ {0}
  OBVIOUS
<1>5. ASSUME NEW b \in Int, b <= s, b * scale <= f PROVE b * scale <= x \div 20
  <2> DEFINE p == b * scale
  <2>1. p \in Int /\ p <= q
    <3>1. scale * b <= scale * s /\ scale * b = b * scale /\ scale * s = s * scale /\ b * scale \in Int
      BY <1>5, ProductGrows
    <3> QED BY <3>1 DEF q
  <2>2. p <= f
    BY <1>5
  <2> HIDE DEF p
  <2>3. 20 * p <= x
    <3>1. a = 1 \/ a = 2 \/ a = 4 \/ a = 6
      OBVIOUS
    <3> QED BY <1>1, <1>2, <2>1, <2>2, <3>1
  <2>4. p <= x \div 20
    BY <1>3, <1>4, <2>1, <2>3, QuotientBounds
  <2> QED BY <2>4 DEF p
<1>6. ASSUME NEW b \in Int, s <= b, f <= b * scale PROVE x \div 20 <= b * scale
  <2> DEFINE p == b * scale
  <2>1. p \in Int /\ q <= p
    <3>1. scale * s <= scale * b /\ scale * b = b * scale /\ scale * s = s * scale /\ b * scale \in Int
      BY <1>6, ProductGrows
    <3> QED BY <3>1 DEF q
  <2>2. f <= p
    BY <1>6
  <2> HIDE DEF p
  <2>3. x < 20 * (p + 1) /\ p + 1 \in Int
    <3>1. a = 1 \/ a = 2 \/ a = 4 \/ a = 6
      OBVIOUS
    <3> QED BY <1>1, <1>2, <2>1, <2>2, <3>1
  <2>4. x \div 20 < p + 1
    BY <1>3, <1>4, <2>3, QuotientBounds
  <2>5. x \div 20 <= p
    BY <1>3, <2>1, <2>4
  <2> QED BY <2>5 DEF p
<1>7. x \div 20 \in Int
  BY <1>3
<1> QED BY <1>5, <1>6, <1>7 DEF x

LEMMA SampleIsWhole ==
    ASSUME NEW c \in D!Channel, NEW raw \in Raw
    PROVE  D!Converted(c, D!AdcToVolts(D!ReadRaw(c, raw))) \in Int
<1> DEFINE mv == D!AdcToVolts(D!ReadRaw(c, raw))
<1>1. mv \in Int
  <2>1. D!ReadRaw(c, raw) \in Nat
    BY ReadingNumbers DEF D!ReadRaw
  <2> QED BY <2>1 DEF D!AdcToVolts
<1> HIDE DEF mv
<1>2. /\ D!Within(mv \div 5, 0, 1000) \in Int /\ D!Within((mv * 10) \div 33, 0, 1000) \in Int
  <2>1. mv \div 5 \in Int /\ (mv * 10) \div 33 \in Int /\ 0 <= 1000
    BY <1>1
  <2>2. \A v \in Int : D!Within(v, 0, 1000) = (IF v < 0 THEN 0 ELSE IF v > 1000 THEN 1000 ELSE v)
    BY <2>1, WithinOK
  <2> QED BY <2>1, <2>2
<1>3. (LET l == D!Wideband(0, 5000, mv) IN IF l = None THEN 1000 ELSE l) \in Int
  BY <1>1, WidebandOK
<1>4. mv \div 2 \in Int /\ mv - 500 \in Int /\ (mv * 14) \div 10 \in Int /\ (mv * 8232) \div 100000 \in Int
  BY <1>1
<1>5. c \in {"Clt", "Iat", "Map", "Tps", "OilPressure", "FuelLevel", "Vbatt", "Lambda1"}
  BY DEF D!Channel, D!Alpha
<1>6. D!Converted(c, mv) \in Int
  <2>1. c = "Map" => D!Converted(c, mv) = mv \div 2
    BY DEF D!Converted
  <2>2. c = "Clt" \/ c = "Iat" => D!Converted(c, mv) = mv - 500
    BY DEF D!Converted
  <2>3. c = "Tps" => D!Converted(c, mv) = D!Within(mv \div 5, 0, 1000)
    BY DEF D!Converted
  <2>4. c = "OilPressure" => D!Converted(c, mv) = (mv * 14) \div 10
    BY DEF D!Converted
  <2>5. c = "FuelLevel" => D!Converted(c, mv) = D!Within((mv * 10) \div 33, 0, 1000)
    BY DEF D!Converted
  <2>6. c = "Vbatt" => D!Converted(c, mv) = (mv * 8232) \div 100000
    BY DEF D!Converted
  <2>7. c = "Lambda1" => D!Converted(c, mv) = LET l == D!Wideband(0, 5000, mv) IN IF l = None THEN 1000 ELSE l
    BY DEF D!Converted
  <2> QED BY <1>2, <1>3, <1>4, <1>5, <2>1, <2>2, <2>3, <2>4, <2>5, <2>6, <2>7
<1> QED BY <1>6 DEF mv

Below(b) == \A i \in 1 .. Len(samples) : b <= samples[i]
Above(b) == \A i \in 1 .. Len(samples) : samples[i] <= b

ReadingInv ==
    /\ channel \in D!Channel /\ samples \in Seq(Int)
    /\ smoothed \in [value : Int, initialized : BOOLEAN]
    /\ channel \in DOMAIN D!Alpha =>
          /\ smoothed.initialized <=> Len(samples) # 0
          /\ Len(samples) # 0 => present = smoothed.value
    /\ Len(samples) # 0 =>
          /\ present \in Int
          /\ \E x \in Int : Below(x) /\ \E i \in 1 .. Len(samples) : samples[i] = x
          /\ \E x \in Int : Above(x) /\ \E i \in 1 .. Len(samples) : samples[i] = x
          /\ \A b \in Int : Below(b) => b * D!Scale <= present
          /\ \A b \in Int : Above(b) => present <= b * D!Scale

LEMMA PassIsBetween ==
    ASSUME ReadingInv, NEW raw \in Raw, D!Pass(raw)
    PROVE  ReadingInv'
<1> DEFINE filtered == channel \in DOMAIN D!Alpha
           n == Len(samples)
<1>1. /\ channel \in D!Channel /\ samples \in Seq(Int) /\ smoothed \in [value : Int, initialized : BOOLEAN]
      /\ smoothed.value \in Int /\ smoothed.initialized \in BOOLEAN /\ n \in Nat
      /\ filtered => (smoothed.initialized <=> n # 0)
      /\ filtered /\ n # 0 => present = smoothed.value
  BY DEF ReadingInv
<1>2. PICK s \in Int : s = D!Converted(channel, D!AdcToVolts(D!ReadRaw(channel, raw)))
  BY <1>1, SampleIsWhole
<1>20. s \in Int /\ D!Scale \in Nat
  BY <1>2, ReadingNumbers
<1>3. /\ samples' = Append(samples, s) /\ channel' = channel
      /\ smoothed' = IF filtered THEN D!Update(smoothed, D!Alpha[channel], s) ELSE smoothed
      /\ present' = IF filtered THEN smoothed'.value ELSE s * D!Scale
  BY <1>2 DEF D!Pass
<1>4. /\ samples' \in Seq(Int) /\ Len(samples') = n + 1 /\ samples'[n + 1] = s
      /\ \A i \in 1 .. n : samples'[i] = samples[i] /\ samples[i] \in Int
      /\ n + 1 \in 1 .. Len(samples') /\ Len(samples') # 0
  BY <1>1, <1>20, <1>3
<1>5. \A i \in 1 .. Len(samples') : i \in 1 .. n \/ i = n + 1
  BY <1>1, <1>4
<1>6. \A i \in 1 .. n : i \in 1 .. Len(samples')
  BY <1>1, <1>4
<1>7. \A b \in Int : /\ Below(b)' <=> (\A i \in 1 .. n : b <= samples[i]) /\ b <= s
                     /\ Above(b)' <=> (\A i \in 1 .. n : samples[i] <= b) /\ s <= b
  BY <1>4, <1>5, <1>6 DEF Below, Above
<1>8. \A b \in Int : (Below(b)' <=> Below(b) /\ b <= s) /\ (Above(b)' <=> Above(b) /\ s <= b)
  BY <1>7 DEF Below, Above
<1>9. n # 0 =>
          /\ present \in Int
          /\ \E x \in Int : Below(x) /\ \E i \in 1 .. n : samples[i] = x
          /\ \E x \in Int : Above(x) /\ \E i \in 1 .. n : samples[i] = x
          /\ \A b \in Int : Below(b) => b * D!Scale <= present
          /\ \A b \in Int : Above(b) => present <= b * D!Scale
  BY DEF ReadingInv
<1>10. \E x \in Int : Below(x)' /\ \E i \in 1 .. Len(samples') : samples'[i] = x
  <2>1. CASE n = 0
    <3>1. \A i \in 1 .. n : FALSE
      BY <1>1, <2>1
    <3>2. Below(s)'
      BY <1>20, <1>7, <3>1
    <3> QED BY <1>20, <1>4, <3>2
  <2>2. CASE n # 0
    <3>1. PICK x \in Int : Below(x) /\ \E i \in 1 .. n : samples[i] = x
      BY <1>9, <2>2
    <3>2. CASE x <= s
      <4>1. Below(x)'
        BY <1>8, <3>1, <3>2
      <4> QED BY <1>4, <1>6, <3>1, <4>1
    <3>3. CASE ~(x <= s)
      <4>1. Below(s)
        BY <1>20, <1>4, <3>1, <3>3, SMTT(30) DEF Below
      <4>2. Below(s)'
        BY <1>20, <1>8, <4>1
      <4> QED BY <1>20, <1>4, <4>2
    <3> QED BY <3>2, <3>3
  <2> QED BY <1>1, <2>1, <2>2
<1>11. \E x \in Int : Above(x)' /\ \E i \in 1 .. Len(samples') : samples'[i] = x
  <2>1. CASE n = 0
    <3>1. \A i \in 1 .. n : FALSE
      BY <1>1, <2>1
    <3>2. Above(s)'
      BY <1>20, <1>7, <3>1
    <3> QED BY <1>20, <1>4, <3>2
  <2>2. CASE n # 0
    <3>1. PICK x \in Int : Above(x) /\ \E i \in 1 .. n : samples[i] = x
      BY <1>9, <2>2
    <3>2. CASE s <= x
      <4>1. Above(x)'
        BY <1>8, <3>1, <3>2
      <4> QED BY <1>4, <1>6, <3>1, <4>1
    <3>3. CASE ~(s <= x)
      <4>1. Above(s)
        BY <1>20, <1>4, <3>1, <3>3, SMTT(30) DEF Above
      <4>2. Above(s)'
        BY <1>20, <1>8, <4>1
      <4> QED BY <1>20, <1>4, <4>2
    <3> QED BY <3>2, <3>3
  <2> QED BY <1>1, <2>1, <2>2
<1>12. ASSUME present' \in Int, s * D!Scale = present'
       PROVE  \A b \in Int : (Below(b)' => b * D!Scale <= present') /\ (Above(b)' => present' <= b * D!Scale)
  <2> SUFFICES ASSUME NEW b \in Int
               PROVE  (Below(b)' => b * D!Scale <= present') /\ (Above(b)' => present' <= b * D!Scale)
    OBVIOUS
  <2>1. b <= s => b * D!Scale <= s * D!Scale
    <3>1. D!Scale * b = b * D!Scale /\ D!Scale * s = s * D!Scale
      BY <1>20
    <3> QED BY <1>20, <3>1, ProductGrows
  <2>2. s <= b => s * D!Scale <= b * D!Scale
    <3>1. D!Scale * b = b * D!Scale /\ D!Scale * s = s * D!Scale
      BY <1>20
    <3> QED BY <1>20, <3>1, ProductGrows
  <2> QED BY <1>8, <1>12, <2>1, <2>2
<1>13. CASE ~filtered
  <2>1. smoothed' = smoothed /\ present' = s * D!Scale /\ present' \in Int
    BY <1>20, <1>3, <1>13
  <2>2. \A b \in Int : (Below(b)' => b * D!Scale <= present') /\ (Above(b)' => present' <= b * D!Scale)
    BY <1>12, <2>1
  <2> QED BY <1>1, <1>3, <1>4, <1>10, <1>11, <1>13, <2>1, <2>2 DEF ReadingInv
<1>14. CASE filtered /\ ~smoothed.initialized
  <2>1. smoothed' = [value |-> s * D!Scale, initialized |-> TRUE]
    BY <1>3, <1>14 DEF D!Update
  <2>2. s * D!Scale \in Int
    BY <1>20
  <2>3. /\ smoothed' \in [value : Int, initialized : BOOLEAN] /\ smoothed'.initialized
        /\ smoothed'.value = s * D!Scale
    BY <2>1, <2>2
  <2>4. present' = smoothed'.value /\ present' = s * D!Scale /\ present' \in Int
    BY <1>3, <1>14, <2>2, <2>3
  <2>5. \A b \in Int : (Below(b)' => b * D!Scale <= present') /\ (Above(b)' => present' <= b * D!Scale)
    BY <1>12, <2>4
  <2> QED BY <1>1, <1>3, <1>4, <1>10, <1>11, <2>3, <2>4, <2>5 DEF ReadingInv
<1>15. CASE filtered /\ smoothed.initialized
  <2> DEFINE a == D!Alpha[channel]
             v == (a * s * D!Scale + (20 - a) * smoothed.value) \div 20
  <2>1. a \in {1, 2, 4, 6}
    BY <1>15 DEF D!Alpha
  <2>2. smoothed' = [smoothed EXCEPT !.value = v]
    BY <1>3, <1>15 DEF D!Update
  <2> HIDE DEF a
  <2>3. /\ v \in Int
        /\ \A b \in Int : b <= s /\ b * D!Scale <= smoothed.value => b * D!Scale <= v
        /\ \A b \in Int : s <= b /\ smoothed.value <= b * D!Scale => v <= b * D!Scale
    BY <1>1, <1>20, <2>1, FilterIs, ZenonT(30)
  <2> HIDE DEF v
  <2>4. /\ smoothed' \in [value : Int, initialized : BOOLEAN] /\ smoothed'.value = v /\ smoothed'.initialized
    BY <1>1, <1>15, <2>2, <2>3
  <2>5. n # 0 /\ present = smoothed.value /\ present' = v
    BY <1>1, <1>3, <1>15, <2>4
  <2>6. \A b \in Int : (Below(b)' => b * D!Scale <= present') /\ (Above(b)' => present' <= b * D!Scale)
    BY <1>8, <1>9, <2>3, <2>5
  <2> QED BY <1>1, <1>3, <1>4, <1>10, <1>11, <2>3, <2>4, <2>5, <2>6, ZenonT(30) DEF ReadingInv
<1> QED BY <1>1, <1>13, <1>14, <1>15

LEMMA ReadingStep ==
    ASSUME ReadingInv, D!Next \/ UNCHANGED readingVars
    PROVE  ReadingInv'
<1>1. UNCHANGED readingVars => ReadingInv'
  BY DEF readingVars, ReadingInv, Below, Above
<1> QED BY <1>1, PassIsBetween DEF D!Next

LEMMA ReadingInit == PartsInit => ReadingInv
<1> SUFFICES ASSUME D!Init PROVE ReadingInv
  BY DEF PartsInit
<1>1. channel \in D!Channel /\ smoothed = [value |-> 0, initialized |-> FALSE] /\ samples = <<>>
  BY DEF D!Init
<1>2. samples \in Seq(Int) /\ Len(samples) = 0
  BY <1>1
<1>3. smoothed \in [value : Int, initialized : BOOLEAN] /\ ~smoothed.initialized
  BY <1>1
<1> QED BY <1>1, <1>2, <1>3 DEF ReadingInv

LEMMA ReadingOK == ReadingInv => D!ReadingIsBetween
<1> SUFFICES ASSUME ReadingInv, samples # <<>>
             PROVE  present \in D!Min({samples[i] : i \in 1 .. Len(samples)}) * D!Scale
                                 .. D!Max({samples[i] : i \in 1 .. Len(samples)}) * D!Scale
  BY DEF D!ReadingIsBetween
<1> DEFINE S == {samples[i] : i \in 1 .. Len(samples)}
<1>1. samples \in Seq(Int) /\ Len(samples) # 0 /\ S \subseteq Int /\ D!Scale \in Nat
  BY ReadingNumbers, SMTT(30) DEF ReadingInv
<1>2. /\ present \in Int
      /\ \E x \in Int : Below(x) /\ \E i \in 1 .. Len(samples) : samples[i] = x
      /\ \E x \in Int : Above(x) /\ \E i \in 1 .. Len(samples) : samples[i] = x
      /\ \A b \in Int : Below(b) => b * D!Scale <= present
      /\ \A b \in Int : Above(b) => present <= b * D!Scale
  BY <1>1 DEF ReadingInv
<1>3. D!Min(S) \in S /\ \A y \in S : D!Min(S) <= y
  <2>1. \E x \in S : \A y \in S : x <= y
    BY <1>2 DEF Below
  <2> HIDE DEF S
  <2> QED BY <2>1 DEF D!Min
<1>4. D!Max(S) \in S /\ \A y \in S : D!Max(S) >= y
  <2>1. \E x \in S : \A y \in S : x >= y
    <3>1. PICK x \in Int : Above(x) /\ \E i \in 1 .. Len(samples) : samples[i] = x
      BY <1>2
    <3>2. x \in S /\ \A y \in S : x >= y
      BY <1>1, <3>1 DEF Above
    <3> QED BY <3>2
  <2> HIDE DEF S
  <2> QED BY <2>1 DEF D!Max
<1>5. PICK low \in Int, high \in Int : low = D!Min(S) /\ high = D!Max(S)
  BY <1>1, <1>3, <1>4
<1>6. Below(low) /\ Above(high)
  BY <1>1, <1>3, <1>4, <1>5 DEF Below, Above
<1>7. low * D!Scale <= present /\ present <= high * D!Scale /\ low * D!Scale \in Int /\ high * D!Scale \in Int
  BY <1>1, <1>2, <1>6
<1>8. present \in low * D!Scale .. high * D!Scale
  BY <1>2, <1>7
<1> QED BY <1>5, <1>8

\* A reading is at no time outside what its samples span (IirFilter::update in sensors/mod.rs).
THEOREM ReadingStaysBetween == PartsSpec => [](D!ReadingIsBetween)
<1> DEFINE Inv == ReadingInv
<1>1. PartsInit => Inv
  BY ReadingInit
<1>2. Inv /\ [PartsNext]_allVars => Inv'
  BY ReadingStep, PartsAreApart
<1>3. Inv => D!ReadingIsBetween
  BY ReadingOK
<1> HIDE DEF Inv
<1> QED
  BY <1>1, <1>2, <1>3, PTL DEF PartsSpec

----------------------------------------------------------------------------
(* Cobs: a run of the decoder over a frame, byte by byte.                  *)

IsRun(f, s) == f = [n \in 0 .. Len(s) |-> IF n = 0 THEN C!Decoder ELSE C!Feed(f[n - 1], s[n])]
DecodesTo(s, d) == \E f : IsRun(f, s) /\ f[Len(s)] = d

LEMMA RunsAgree ==
    ASSUME NEW s \in Seq(Nat), NEW f, NEW g, IsRun(f, s), IsRun(g, s)
    PROVE  f[Len(s)] = g[Len(s)]
<1> DEFINE X == {n \in 0 .. Len(s) : f[n] # g[n]}
<1> SUFFICES ASSUME f[Len(s)] # g[Len(s)] PROVE FALSE
  OBVIOUS
<1>1. Len(s) \in X /\ X \in SUBSET Nat
  OBVIOUS
<1>2. PICK m \in X : \A n \in X : m <= n
  BY <1>1, LeastOfSet
<1>3. f[0] = C!Decoder /\ g[0] = C!Decoder
  BY DEF IsRun
<1>4. m \in 1 .. Len(s) /\ m - 1 \in 0 .. Len(s)
  BY <1>2, <1>3
<1>5. f[m - 1] = g[m - 1]
  BY <1>2, <1>4
<1>6. f[m] = C!Feed(f[m - 1], s[m]) /\ g[m] = C!Feed(g[m - 1], s[m])
  BY <1>4 DEF IsRun
<1> QED BY <1>2, <1>5, <1>6

LEMMA DecodeIs ==
    ASSUME NEW s \in Seq(Nat), NEW d, DecodesTo(s, d)
    PROVE  C!Decode(s) = d
<1> DEFINE g == CHOOSE f : IsRun(f, s)
<1>1. PICK f : IsRun(f, s) /\ f[Len(s)] = d
  BY DEF DecodesTo
<1>2. IsRun(g, s)
  BY <1>1
<1>3. C!Decode(s) = g[Len(s)]
  BY DEF C!Decode, IsRun
<1> QED BY <1>1, <1>2, <1>3, RunsAgree

LEMMA DecodesOn ==
    ASSUME NEW s \in Seq(Nat), NEW d, DecodesTo(s, d), NEW b \in Nat
    PROVE  DecodesTo(Append(s, b), C!Feed(d, b))
<1>1. PICK f : IsRun(f, s) /\ f[Len(s)] = d
  BY DEF DecodesTo
<1> DEFINE n == Len(s)
           g == [i \in 0 .. n + 1 |-> IF i <= n THEN f[i] ELSE C!Feed(f[n], b)]
           t == Append(s, b)
<1>2. n \in Nat /\ Len(t) = n + 1 /\ t[n + 1] = b /\ \A i \in 1 .. n : t[i] = s[i]
  OBVIOUS
<1>3. f[0] = C!Decoder /\ \A i \in 1 .. n : f[i] = C!Feed(f[i - 1], s[i])
  <2>1. f = [i \in 0 .. Len(s) |-> IF i = 0 THEN C!Decoder ELSE C!Feed(f[i - 1], s[i])]
    BY <1>1 DEF IsRun
  <2>2. f[0] = C!Decoder
    BY <1>2, <2>1
  <2>3. ASSUME NEW i \in 1 .. n PROVE f[i] = C!Feed(f[i - 1], s[i])
    BY <1>2, <2>1, <2>3, SMTT(30)
  <2> QED BY <2>2, <2>3
<1>4. ASSUME NEW i \in 0 .. n + 1
      PROVE  g[i] = IF i = 0 THEN C!Decoder ELSE C!Feed(g[i - 1], t[i])
  <2>1. CASE i = 0
    BY <1>2, <1>3, <2>1
  <2>2. CASE i \in 1 .. n
    BY <1>2, <1>3, <2>2
  <2>3. CASE i = n + 1
    <3>1. g[i] = C!Feed(f[n], b) /\ g[i - 1] = f[n] /\ t[i] = b
      BY <1>2, <2>3
    <3> QED BY <1>2, <2>3, <3>1
  <2> QED BY <1>2, <2>1, <2>2, <2>3
<1>5. g = [i \in 0 .. Len(t) |-> IF i = 0 THEN C!Decoder ELSE C!Feed(g[i - 1], t[i])]
  <2> HIDE DEF t
  <2> QED BY <1>2, <1>4
<1>6. g[Len(t)] = C!Feed(d, b)
  BY <1>1, <1>2
<1> QED
  <2>1. IsRun(g, t)
    <3> HIDE DEF g, t
    <3> QED BY <1>5 DEF IsRun
  <2> QED BY <1>6, <2>1 DEF DecodesTo

LEMMA AppendAndReplace ==
    ASSUME NEW s \in Seq(Nat), NEW b \in Nat, NEW c \in Nat
    PROVE  /\ \A i \in 1 .. Len(s) : [Append(s, b) EXCEPT ![i] = c] = Append([s EXCEPT ![i] = c], b)
           /\ [Append(s, b) EXCEPT ![Len(s) + 1] = c] = Append(s, c)
<1> DEFINE t == Append(s, b)  n == Len(s)
<1>1. /\ t \in Seq(Nat) /\ Len(t) = n + 1 /\ t[n + 1] = b
      /\ \A j \in 1 .. n : t[j] = s[j]
  BY AppendProperties
<1>2. n \in Nat
  OBVIOUS
<1>3. ASSUME NEW i \in 1 .. n
      PROVE  [t EXCEPT ![i] = c] = Append([s EXCEPT ![i] = c], b)
  <2> DEFINE u == [s EXCEPT ![i] = c]  v == [t EXCEPT ![i] = c]  w == Append(u, b)
  <2>1. u \in Seq(Nat) /\ Len(u) = n /\ \A j \in 1 .. n : u[j] = IF j = i THEN c ELSE s[j]
    BY ExceptSeq
  <2>2. v \in Seq(Nat) /\ Len(v) = n + 1 /\ \A j \in 1 .. n + 1 : v[j] = IF j = i THEN c ELSE t[j]
    <3>1. i \in 1 .. Len(t)
      BY <1>1, <1>2
    <3> HIDE DEF t
    <3> QED BY <1>1, <3>1, ExceptSeq
  <2> HIDE DEF u, t
  <2>3. w \in Seq(Nat) /\ Len(w) = n + 1 /\ w[n + 1] = b /\ \A j \in 1 .. n : w[j] = u[j]
    <3>1. w \in Seq(Nat) /\ Len(w) = Len(u) + 1 /\ w[Len(u) + 1] = b /\ \A j \in 1 .. Len(u) : w[j] = u[j]
      <4>1. u \in Seq(Nat)
        BY <2>1
      <4> QED BY <4>1, AppendProperties
    <3> HIDE DEF w, n
    <3> QED BY <2>1, <3>1, Zenon
  <2> HIDE DEF v, w, n
  <2>4. \A j \in 1 .. n + 1 : v[j] = w[j]
    <3>1. v[n + 1] = w[n + 1]
      BY <1>1, <1>2, <2>2, <2>3
    <3>2. ASSUME NEW j \in 1 .. n PROVE v[j] = w[j]
      <4>1. j \in 1 .. n + 1
        BY <1>2
      <4>2. v[j] = IF j = i THEN c ELSE t[j]
        BY <2>2, <4>1
      <4> QED BY <1>1, <2>1, <2>3, <4>2
    <3> QED BY <1>2, <3>1, <3>2
  <2>5. v = w
    BY <2>2, <2>3, <2>4, SeqEqual
  <2> QED BY <2>5 DEF v, w, u
<1>4. [t EXCEPT ![n + 1] = c] = Append(s, c)
  <2> DEFINE v == [t EXCEPT ![n + 1] = c]  w == Append(s, c)
  <2>1. v \in Seq(Nat) /\ Len(v) = n + 1 /\ \A j \in 1 .. n + 1 : v[j] = IF j = n + 1 THEN c ELSE t[j]
    <3>1. n + 1 \in 1 .. Len(t)
      BY <1>1, <1>2
    <3> HIDE DEF t
    <3> QED BY <1>1, <3>1, ExceptSeq
  <2>2. w \in Seq(Nat) /\ Len(w) = n + 1 /\ w[n + 1] = c /\ \A j \in 1 .. n : w[j] = s[j]
    BY AppendProperties
  <2> HIDE DEF v, w, n, t
  <2>3. \A j \in 1 .. n + 1 : v[j] = w[j]
    BY <1>1, <1>2, <2>1, <2>2
  <2>4. v = w
    BY <2>1, <2>2, <2>3, SeqEqual
  <2> QED BY <2>4 DEF v, w
<1> QED BY <1>3, <1>4

LEMMA CobsNumbers == MaxCode \in Nat /\ MaxCode >= 2
BY PartsAssumption DEF C!Parameters

\* Blocks of full length that are closed.
Full == Len(output) - Len(input) - 1

CobsTypes ==
    /\ input \in Seq(Nat) /\ output \in Seq(Nat)
    /\ codeIndex \in 1 .. Len(output) /\ code \in 1 .. MaxCode - 1
    /\ \A i \in 1 .. Len(output) : i # codeIndex => output[i] # 0

\* Whatever the code of the open block will be, the decoder has given back the input by now and
\* expects so many more bytes.
CobsInv ==
    /\ CobsTypes
    /\ \A c \in code .. MaxCode :
          DecodesTo([output EXCEPT ![codeIndex] = c],
                    [out |-> input, left |-> c - code, elided |-> c # MaxCode, valid |-> TRUE])
    /\ Full \in Nat /\ (MaxCode - 1) * Full + code - 1 <= Len(input)

LEMMA CobsInit == PartsInit => CobsInv
<1> SUFFICES ASSUME PartsInit PROVE CobsInv
  OBVIOUS
<1>1. input = <<>> /\ output = <<0>> /\ codeIndex = 1 /\ code = 1
  BY DEF PartsInit, C!Init
<1>2. CobsTypes
  BY <1>1, CobsNumbers DEF CobsTypes
<1>3. ASSUME NEW c \in code .. MaxCode
      PROVE  DecodesTo([output EXCEPT ![codeIndex] = c],
                       [out |-> input, left |-> c - code, elided |-> c # MaxCode, valid |-> TRUE])
  <2>1. DecodesTo(<<>>, C!Decoder)
    <3> DEFINE f == [n \in 0 .. Len(<<>>) |-> C!Decoder]
    <3>1. Len(<<>>) = 0 /\ <<>> \in Seq(Nat)
      OBVIOUS
    <3>2. f = [n \in 0 .. Len(<<>>) |-> IF n = 0 THEN C!Decoder ELSE C!Feed(f[n - 1], <<>>[n])]
      BY <3>1
    <3>3. IsRun(f, <<>>) /\ f[Len(<<>>)] = C!Decoder
      BY <3>1, <3>2 DEF IsRun
    <3> QED BY <3>3 DEF DecodesTo
  <2>2. c \in Nat /\ c # 0
    BY <1>1, CobsNumbers
  <2>3. DecodesTo(Append(<<>>, c), C!Feed(C!Decoder, c))
    <3>1. <<>> \in Seq(Nat) /\ c \in Nat
      BY <2>2
    <3> QED BY <2>1, <3>1, DecodesOn
  <2>4. [output EXCEPT ![codeIndex] = c] = Append(<<>>, c)
    BY <1>1
  <2>5. C!Feed(C!Decoder, c) = [out |-> input, left |-> c - code, elided |-> c # MaxCode, valid |-> TRUE]
    <3>1. C!Feed(C!Decoder, c) = [C!Decoder EXCEPT !.out = <<>>, !.left = c - 1, !.elided = c # MaxCode]
      BY <2>2 DEF C!Feed, C!Decoder
    <3> QED BY <1>1, <3>1 DEF C!Decoder
  <2> QED BY <2>3, <2>4, <2>5
<1>4. Full = 0 /\ code - 1 = 0 /\ Len(input) = 0
  BY <1>1 DEF Full
<1>5. (MaxCode - 1) * 0 = 0
  BY CobsNumbers
<1> QED BY <1>2, <1>3, <1>4, <1>5 DEF CobsInv

\* The end of a block whose code is final, after the bytes out.
LEMMA CloseOK ==
    ASSUME NEW out \in Seq(Nat), codeIndex \in 1 .. Len(out), NEW final \in 1 .. MaxCode,
           \A i \in 1 .. Len(out) : i # codeIndex => out[i] # 0,
           NEW got, DecodesTo([out EXCEPT ![codeIndex] = final],
                              [out |-> got, left |-> 0, elided |-> final # MaxCode, valid |-> TRUE]),
           output' = Append([out EXCEPT ![codeIndex] = final], 0), codeIndex' = Len(out) + 1, code' = 1
    PROVE  /\ output' \in Seq(Nat) /\ codeIndex' \in 1 .. Len(output') /\ Len(output') = Len(out) + 1
           /\ code' \in 1 .. MaxCode - 1
           /\ \A i \in 1 .. Len(output') : i # codeIndex' => output'[i] # 0
           /\ \A c \in code' .. MaxCode :
                 DecodesTo([output' EXCEPT ![codeIndex'] = c],
                           [out |-> IF final # MaxCode THEN Append(got, 0) ELSE got,
                            left |-> c - code', elided |-> c # MaxCode, valid |-> TRUE])
<1> DEFINE t == [out EXCEPT ![codeIndex] = final]
<1>1. t \in Seq(Nat) /\ Len(t) = Len(out) /\ final \in Nat /\ Len(out) \in Nat
      /\ \A i \in 1 .. Len(out) : t[i] = IF i = codeIndex THEN final ELSE out[i]
  BY CobsNumbers
<1>2. \A i \in 1 .. Len(out) : t[i] # 0
  BY <1>1
<1> HIDE DEF t
<1>3. /\ output' = Append(t, 0)
      /\ DecodesTo(t, [out |-> got, left |-> 0, elided |-> final # MaxCode, valid |-> TRUE])
  BY DEF t
<1>4. /\ output' \in Seq(Nat) /\ Len(output') = Len(out) + 1 /\ codeIndex' \in 1 .. Len(output')
      /\ \A i \in 1 .. Len(out) : output'[i] = t[i]
  BY <1>1, <1>3, SMTT(30)
<1>5. \A i \in 1 .. Len(output') : i # codeIndex' => output'[i] # 0
  BY <1>1, <1>2, <1>4, SMTT(30)
<1>6. ASSUME NEW c \in code' .. MaxCode
      PROVE  DecodesTo([output' EXCEPT ![codeIndex'] = c],
                       [out |-> IF final # MaxCode THEN Append(got, 0) ELSE got,
                        left |-> c - code', elided |-> c # MaxCode, valid |-> TRUE])
  <2> DEFINE d == [out |-> got, left |-> 0, elided |-> final # MaxCode, valid |-> TRUE]
  <2>1. c \in Nat /\ c # 0
    BY CobsNumbers
  <2>2. [output' EXCEPT ![codeIndex'] = c] = Append(t, c)
    <3>1. 0 \in Nat /\ codeIndex' = Len(t) + 1
      BY <1>1
    <3>2. [Append(t, 0) EXCEPT ![Len(t) + 1] = c] = Append(t, c)
      BY <1>1, <2>1, <3>1, AppendAndReplace, ZenonT(30)
    <3> QED BY <1>3, <3>1, <3>2
  <2>3. DecodesTo(Append(t, c), C!Feed(d, c))
    BY <1>1, <1>3, <2>1, DecodesOn
  <2>4. C!Feed(d, c) = [out |-> IF final # MaxCode THEN Append(got, 0) ELSE got,
                        left |-> c - code', elided |-> c # MaxCode, valid |-> TRUE]
    <3>1. C!Feed(d, c) = [d EXCEPT !.out = IF d.elided THEN Append(d.out, 0) ELSE d.out,
                                   !.left = c - 1, !.elided = c # MaxCode]
      BY <2>1 DEF C!Feed
    <3> QED BY <3>1
  <2> QED BY <2>2, <2>3, <2>4
<1>7. code' \in 1 .. MaxCode - 1
  BY CobsNumbers
<1> QED BY <1>4, <1>5, <1>6, <1>7

LEMMA PutOK ==
    ASSUME CobsInv, NEW b \in C!Bytes, C!Put(b)
    PROVE  CobsInv'
<1> DEFINE At(c) == [out |-> input, left |-> c - code, elided |-> c # MaxCode, valid |-> TRUE]
<1>1. /\ input \in Seq(Nat) /\ output \in Seq(Nat) /\ codeIndex \in 1 .. Len(output)
      /\ code \in 1 .. MaxCode - 1 /\ code \in Nat /\ MaxCode \in Nat /\ MaxCode >= 2 /\ b \in Nat
      /\ \A i \in 1 .. Len(output) : i # codeIndex => output[i] # 0
      /\ Len(output) \in Nat /\ Len(input) \in Nat
  BY CobsNumbers DEF CobsInv, CobsTypes, C!Bytes
<1>2. \A c \in code .. MaxCode : DecodesTo([output EXCEPT ![codeIndex] = c], At(c))
  BY DEF CobsInv
<1>3. input' = Append(input, b) /\ input' \in Seq(Nat) /\ Len(input') = Len(input) + 1
  BY <1>1 DEF C!Put
<1>4. Full \in Nat /\ (MaxCode - 1) * Full + code - 1 <= Len(input) /\ Full = Len(output) - Len(input) - 1
  BY DEF CobsInv, Full
\* A byte after the bytes of the open block.
<1>5. ASSUME b # 0, NEW c \in code + 1 .. MaxCode
      PROVE  /\ [Append(output, b) EXCEPT ![codeIndex] = c] = Append([output EXCEPT ![codeIndex] = c], b)
             /\ DecodesTo([Append(output, b) EXCEPT ![codeIndex] = c],
                          [out |-> input', left |-> c - code - 1, elided |-> c # MaxCode, valid |-> TRUE])
  <2> DEFINE s == [output EXCEPT ![codeIndex] = c]
  <2>1. c \in code .. MaxCode /\ c \in Nat
    BY <1>1
  <2>2. s \in Seq(Nat) /\ DecodesTo(s, At(c))
    BY <1>1, <1>2, <2>1
  <2>3. [Append(output, b) EXCEPT ![codeIndex] = c] = Append(s, b)
    BY <1>1, <2>1, AppendAndReplace
  <2>4. C!Feed(At(c), b) = [out |-> input', left |-> c - code - 1, elided |-> c # MaxCode, valid |-> TRUE]
    <3>1. At(c).left > 0
      BY <1>1, <2>1
    <3> QED BY <1>1, <1>3, <1>5, <2>1, <3>1 DEF C!Feed
  <2>5. DecodesTo(Append(s, b), C!Feed(At(c), b))
    <3> HIDE DEF s, At
    <3> QED BY <1>1, <2>2, DecodesOn
  <2> QED BY <2>3, <2>4, <2>5
<1>6. CASE b = 0
  <2>1. Len(output) = Len(output) /\ C!Close(output)
    BY <1>6 DEF C!Put
  <2>2. output' = Append([output EXCEPT ![codeIndex] = code], 0) /\ codeIndex' = Len(output) + 1 /\ code' = 1
    BY <2>1 DEF C!Close
  <2>3. DecodesTo([output EXCEPT ![codeIndex] = code],
                  [out |-> input, left |-> 0, elided |-> code # MaxCode, valid |-> TRUE])
    BY <1>1, <1>2
  <2>4. code \in 1 .. MaxCode /\ code # MaxCode
    BY <1>1
  <2>5. /\ output' \in Seq(Nat) /\ codeIndex' \in 1 .. Len(output') /\ Len(output') = Len(output) + 1
        /\ code' \in 1 .. MaxCode - 1
        /\ \A i \in 1 .. Len(output') : i # codeIndex' => output'[i] # 0
        /\ \A c \in code' .. MaxCode :
              DecodesTo([output' EXCEPT ![codeIndex'] = c],
                        [out |-> IF code # MaxCode THEN Append(input, 0) ELSE input,
                         left |-> c - code', elided |-> c # MaxCode, valid |-> TRUE])
    BY <1>1, <2>2, <2>3, <2>4, CloseOK
  <2>6. (IF code # MaxCode THEN Append(input, 0) ELSE input) = input'
    BY <1>3, <1>6, <2>4
  <2>7. Full' = Full /\ code' = 1
    BY <1>1, <1>3, <1>4, <2>2, <2>5, SMTT(30) DEF Full
  <2>8. (MaxCode - 1) * Full' + code' - 1 <= Len(input')
    <3>1. (MaxCode - 1) * Full \in Int
      BY <1>1, <1>4
    <3> QED BY <1>1, <1>3, <1>4, <2>7, <3>1
  <2> QED BY <1>3, <1>4, <2>5, <2>6, <2>7, <2>8 DEF CobsInv, CobsTypes
<1>7. CASE b # 0 /\ code + 1 = MaxCode
  <2> DEFINE out == Append(output, b)
  <2>1. C!Close(out)
    BY <1>7 DEF C!Put
  <2>2. Len(out) = Len(output) + 1 /\ out \in Seq(Nat) /\ Len(out) # Len(output)
        /\ codeIndex \in 1 .. Len(out) /\ \A i \in 1 .. Len(out) : i # codeIndex => out[i] # 0
    <3>1. Len(out) = Len(output) + 1 /\ out \in Seq(Nat) /\ out[Len(output) + 1] = b
          /\ \A i \in 1 .. Len(output) : out[i] = output[i]
      BY <1>1, AppendProperties
    <3> HIDE DEF out
    <3>2. codeIndex \in 1 .. Len(out) /\ Len(out) # Len(output)
      BY <1>1, <3>1
    <3>3. ASSUME NEW i \in 1 .. Len(out), i # codeIndex PROVE out[i] # 0
      <4>1. CASE i = Len(output) + 1
        BY <1>7, <3>1, <4>1
      <4>2. CASE i \in 1 .. Len(output)
        BY <1>1, <3>1, <3>3, <4>2
      <4> QED BY <1>1, <3>1, <4>1, <4>2, SMTT(30)
    <3> QED BY <3>1, <3>2, <3>3
  <2>3. output' = Append([out EXCEPT ![codeIndex] = MaxCode], 0) /\ codeIndex' = Len(out) + 1 /\ code' = 1
    BY <1>7, <2>1, <2>2 DEF C!Close
  <2>4. DecodesTo([out EXCEPT ![codeIndex] = MaxCode],
                  [out |-> input', left |-> 0, elided |-> MaxCode # MaxCode, valid |-> TRUE])
    <3>1. MaxCode \in code + 1 .. MaxCode /\ MaxCode - code - 1 = 0
      BY <1>1, <1>7
    <3> QED BY <1>5, <1>7, <3>1
  <2>5. MaxCode \in 1 .. MaxCode
    BY <1>1
  <2> HIDE DEF out
  <2>6. /\ output' \in Seq(Nat) /\ codeIndex' \in 1 .. Len(output') /\ Len(output') = Len(out) + 1
        /\ code' \in 1 .. MaxCode - 1
        /\ \A i \in 1 .. Len(output') : i # codeIndex' => output'[i] # 0
        /\ \A c \in code' .. MaxCode :
              DecodesTo([output' EXCEPT ![codeIndex'] = c],
                        [out |-> IF MaxCode # MaxCode THEN Append(input', 0) ELSE input',
                         left |-> c - code', elided |-> c # MaxCode, valid |-> TRUE])
    BY <2>2, <2>3, <2>4, <2>5, CloseOK
  <2>7. Full' = Full + 1 /\ code' = 1
    BY <1>1, <1>3, <1>4, <2>2, <2>3, <2>6 DEF Full
  <2>8. (MaxCode - 1) * Full' + code' - 1 <= Len(input')
    <3>1. (MaxCode - 1) * (Full + 1) = (MaxCode - 1) * Full + (MaxCode - 1)
      BY <1>1, <1>4
    <3>2. (MaxCode - 1) * Full \in Int
      BY <1>1, <1>4
    <3> QED BY <1>1, <1>3, <1>4, <1>7, <2>7, <3>1, <3>2
  <2>9. \A c \in code' .. MaxCode :
           DecodesTo([output' EXCEPT ![codeIndex'] = c],
                     [out |-> input', left |-> c - code', elided |-> c # MaxCode, valid |-> TRUE])
    BY <2>6, Zenon
  <2>10. CobsTypes'
    <3>1. /\ output' \in Seq(Nat) /\ codeIndex' \in 1 .. Len(output') /\ code' \in 1 .. MaxCode - 1
          /\ \A i \in 1 .. Len(output') : i # codeIndex' => output'[i] # 0
      BY <2>6, Zenon
    <3> QED BY <1>3, <3>1 DEF CobsTypes
  <2>11. Full' \in Nat
    BY <1>4, <2>7
  <2> QED BY <2>8, <2>9, <2>10, <2>11, Zenon DEF CobsInv
<1>8. CASE b # 0 /\ code + 1 # MaxCode
  <2>1. output' = Append(output, b) /\ code' = code + 1 /\ codeIndex' = codeIndex
    BY <1>8 DEF C!Put
  <2>2. CobsTypes'
    <3>1. /\ Len(output') = Len(output) + 1 /\ output' \in Seq(Nat) /\ output'[Len(output) + 1] = b
          /\ \A i \in 1 .. Len(output) : output'[i] = output[i]
      BY <1>1, <2>1, AppendProperties
    <3>2. codeIndex' \in 1 .. Len(output') /\ code' \in 1 .. MaxCode - 1
      BY <1>1, <1>8, <2>1, <3>1
    <3>3. ASSUME NEW i \in 1 .. Len(output'), i # codeIndex' PROVE output'[i] # 0
      <4>1. CASE i = Len(output) + 1
        BY <1>8, <3>1, <4>1
      <4>2. CASE i \in 1 .. Len(output)
        BY <1>1, <2>1, <3>1, <3>3, <4>2
      <4> QED BY <1>1, <3>1, <4>1, <4>2, SMTT(30)
    <3> QED BY <1>3, <3>1, <3>2, <3>3 DEF CobsTypes
  <2>3. ASSUME NEW c \in code' .. MaxCode
        PROVE  DecodesTo([output' EXCEPT ![codeIndex'] = c],
                         [out |-> input', left |-> c - code', elided |-> c # MaxCode, valid |-> TRUE])
    <3>1. c \in code + 1 .. MaxCode /\ c - code - 1 = c - code'
      BY <1>1, <2>1
    <3> QED BY <1>5, <1>8, <2>1, <3>1
  <2>4. Full' = Full
    BY <1>1, <1>3, <1>4, <2>1 DEF Full
  <2>5. (MaxCode - 1) * Full' + code' - 1 <= Len(input')
    <3>1. (MaxCode - 1) * Full \in Int
      BY <1>1, <1>4
    <3> QED BY <1>1, <1>3, <1>4, <2>1, <2>4, <3>1
  <2> QED BY <1>4, <2>2, <2>3, <2>4, <2>5 DEF CobsInv
<1> QED BY <1>6, <1>7, <1>8

LEMMA CobsStep == CobsInv /\ [PartsNext]_allVars => CobsInv'
<1>1. CobsInv /\ UNCHANGED cobsVars => CobsInv'
  BY DEF CobsInv, CobsTypes, Full, cobsVars
<1> QED BY <1>1, PutOK, PartsAreApart DEF C!Next

\* A frame is given back by the decoder whatever it holds and wherever its blocks end, for every
\* length of a block; its encoding holds no zero and fits the buffer that encode asks for
\* (device-api/src/cobs.rs).
THEOREM FramesComeBack == PartsSpec => []RoundTrip
<1>1. CobsInv => RoundTrip
  <2> SUFFICES ASSUME CobsInv PROVE RoundTrip
    OBVIOUS
  <2> DEFINE e == [output EXCEPT ![codeIndex] = code]
             n == Len(input)
  <2>1. /\ input \in Seq(Nat) /\ output \in Seq(Nat) /\ codeIndex \in 1 .. Len(output)
        /\ code \in 1 .. MaxCode - 1 /\ code \in code .. MaxCode /\ code - code = 0
        /\ \A i \in 1 .. Len(output) : i # codeIndex => output[i] # 0
        /\ Len(output) \in Nat /\ n \in Nat /\ MaxCode \in Nat /\ MaxCode >= 2 /\ code \in Nat
    BY CobsNumbers DEF CobsInv, CobsTypes
  <2>2. e \in Seq(Nat) /\ Len(e) = Len(output) /\ \A i \in DOMAIN e : e[i] # 0
    BY <2>1
  <2>3. C!Decode(e) = [out |-> input, left |-> 0, elided |-> code # MaxCode, valid |-> TRUE]
    <3>1. DecodesTo(e, [out |-> input, left |-> code - code, elided |-> code # MaxCode, valid |-> TRUE])
      BY <2>1 DEF CobsInv
    <3> HIDE DEF e
    <3> QED BY <2>1, <2>2, <3>1, DecodeIs
  <2>4. Len(e) <= n + n \div (MaxCode - 1) + 1
    <3>1. Full \in Nat /\ (MaxCode - 1) * Full <= n /\ Len(output) = n + 1 + Full
      <4>1. (MaxCode - 1) * Full \in Int
        BY <2>1 DEF CobsInv
      <4> QED BY <2>1, <4>1 DEF CobsInv, Full
    <3>2. Full <= n \div (MaxCode - 1)
      <4> DEFINE m == MaxCode - 1  q == n \div m
      <4>1. m \in Nat /\ m > 0 /\ m * Full <= n /\ Full \in Nat
        BY <2>1, <3>1
      <4> HIDE DEF m
      <4>2. q \in Int /\ n < m * (q + 1)
        BY <2>1, <4>1
      <4> HIDE DEF q
      <4>3. m * Full < m * (q + 1)
        <5>1. m * Full \in Int /\ m * (q + 1) \in Int /\ n \in Int
          BY <2>1, <4>1, <4>2
        <5> QED BY <4>1, <4>2, <5>1
      <4>4. Full < q + 1
        BY <4>1, <4>2, <4>3
      <4> QED BY <4>1, <4>2, <4>4 DEF m, q
    <3> QED BY <2>1, <2>2, <3>1, <3>2
  <2> QED BY <2>2, <2>3, <2>4 DEF RoundTrip, C!RoundTrip, C!Encoded, C!MaxEncoded
<1> QED BY <1>1, CobsInit, CobsStep, PTL DEF PartsSpec

----------------------------------------------------------------------------
(* All that the parts of GuardsHold promise.                               *)

\* Throttle, heater, torque cuts, trigger aids, regulators, readings and frames keep what they promise.
THEOREM GuardsKept == PartsSpec => []GuardsHold
<1>1. E!GuardsHold /\ T!CutsHold /\ A!TriggerAidsHold /\ R!RegulatorsHold /\ D!ReadingIsBetween /\ N!CanHolds
      => GuardsHold
  BY ConversionsSound DEF GuardsHold
<1> QED
  BY <1>1, ThrottleAndHeaterGuard, CutsAreHeld, AidsCount, RegulatorsStandWell, FramesInOrder,
     ReadingStaysBetween, PTL
=============================================================================
