------------------------ MODULE ControllersProofs ------------------------
(***************************************************************************)
(* Proofs about the parts of MCControllers.  The parts share no state, so  *)
(* what holds of a part on its own holds of PartsSpec: the first section   *)
(* says how, and each further one is about one part.                       *)
(***************************************************************************)
EXTENDS MCControllers, TLAPS

----------------------------------------------------------------------------
(* A step of any part is a step of a given part or leaves that part alone. *)

LEMMA PartsAreApart ==
    ASSUME [PartsNext]_allVars
    PROVE  /\ [Next]_vars
           /\ F!Next \/ UNCHANGED fuellingVars
           /\ L!Next \/ UNCHANGED outputsVars
           /\ K!Next \/ UNCHANGED keyVars
           /\ G!Next \/ UNCHANGED gearVars
           /\ B!Next \/ UNCHANGED bootVars
           /\ P!Next \/ UNCHANGED pathVars
<1>1. CASE PartsNext
  BY <1>1 DEF PartsNext, RunOverrides, RunCobs, RunFuelling, RunOutputs, RunKey, RunGearbox, RunGuards,
         RunCuts, RunBoot, RunFuelPath, RunTriggerAids, RunRegulators, RunReadings, RunCanBus
<1>2. CASE UNCHANGED allVars
  BY <1>2 DEF allVars
<1> QED
  BY <1>1, <1>2

----------------------------------------------------------------------------
(* Overrides: every step is one of OverridePromise, or a stutter.          *)

\* A pass after the clock has wrapped, with the next look planned for before the wrap: the plain
\* comparison in serve_connection then waits for the clock to come round again.
Missed == now' < now /\ now < nextModel

Left == [t \in Outputs |-> IF slots[t] = None THEN 0 ELSE Until(slots[t])]
Behind == IF connected THEN (now - (nextModel - Step)) % Wrap ELSE 0

OverrideTypes ==
    /\ now \in Clock /\ nextModel \in Clock /\ connected \in BOOLEAN
    /\ slots \in [Target -> Clock \cup {None}]
    /\ acting \in [Outputs -> BOOLEAN]

\* The next look is at most Step ahead; beyond the wrap only when the latest one was just now.
NextLook ==
    connected => \/ \E u \in 0 .. Step - 1 : Behind = u /\ nextModel = now + Step - u
                 \/ Behind = 0 /\ nextModel = now + Step - Wrap

\* At is l ahead of n on the clock (or behind it, for l < 0).
IsAhead(at, n, l) == at = n + l \/ at = n + l - Wrap \/ at = n + l + Wrap

\* An override ends within MaxTimeout, or ended since the latest look.
SlotsNear ==
    \A t \in Outputs : slots[t] # None => \E l \in 1 - Behind .. MaxTimeout : IsAhead(slots[t], now, l)

\* Nothing is overridden while nobody is connected.
NobodyOverrides ==
    ~connected => slots = [t \in Target |-> None] /\ acting = [t \in Outputs |-> FALSE]

OverrideInv == OverrideTypes /\ NextLook /\ SlotsNear /\ NobodyOverrides

LEMMA Wide ==
    /\ Wrap \in Nat /\ Step \in Nat /\ Step > 0 /\ MaxTimeout \in Nat /\ MaxTimeout > 0
    /\ 2 * (Wrap \div 2) <= Wrap /\ Wrap <= 2 * (Wrap \div 2) + 1 /\ Wrap \div 2 \in Nat
    /\ 2 * ((Wrap - 1) \div 2) <= Wrap - 1 /\ Wrap <= 2 * ((Wrap - 1) \div 2) + 2
    /\ (Wrap - 1) \div 2 \in Nat
    /\ MaxTimeout + Step + 1 < Wrap \div 2
    /\ \A d \in Lapses : d \in Nat /\ d > 0 /\ MaxTimeout + Step + d < Wrap \div 2
<1>1. PICK d \in Lapses : TRUE
  BY OverrideAssumption
<1>2. Wrap \in Nat /\ Wrap > 0
  <2>1. Wrap \in Nat /\ Wrap \div 2 > 0
    BY <1>1, OverrideAssumption
  <2> QED
    BY <2>1
<1> QED
  BY <1>1, <1>2, OverrideAssumption

\* Remainders of what is at most once round the clock.
LEMMA Remainder ==
    ASSUME NEW W \in Nat \ {0}, NEW x \in -W .. 2 * W - 1
    PROVE  x % W = IF x < 0 THEN x + W ELSE IF x < W THEN x ELSE x - W
OBVIOUS

\* The clock after a time of less than one round.
LEMMA RoundTheClock ==
    ASSUME NEW n \in Clock, NEW d \in Nat, d < Wrap
    PROVE  (n + d) % Wrap = IF n + d < Wrap THEN n + d ELSE n + d - Wrap
<1>1. Wrap \in Nat \ {0} /\ n \in Int /\ d \in Int /\ n + d \in -Wrap .. 2 * Wrap - 1 /\ ~(n + d < 0)
  BY Wide DEF Clock
<1>2. PICK x \in -Wrap .. 2 * Wrap - 1 : x = n + d
  BY <1>1
<1>3. x % Wrap = IF x < Wrap THEN x ELSE x - Wrap
  BY <1>1, <1>2, Remainder
<1> QED
  BY <1>1, <1>2, <1>3

\* What the test in Overrides::get and the mapping make of a time near n.
LEMMA NearTimes ==
    ASSUME NEW n \in Clock, NEW at \in Clock, NEW l \in Int,
           -l < (Wrap - 1) \div 2, l <= MaxTimeout, IsAhead(at, n, l)
    PROVE  /\ (IF (at - n) % Wrap < Wrap \div 2 THEN (at - n) % Wrap ELSE 0) = IF l > 0 THEN l ELSE 0
           /\ (n - at) % Wrap < (Wrap - 1) \div 2 <=> l <= 0
<1>1. Wrap \in Nat \ {0} /\ n \in 0 .. Wrap - 1 /\ at \in 0 .. Wrap - 1
  BY Wide DEF Clock
<1>2. at - n \in -Wrap .. 2 * Wrap - 1 /\ n - at \in -Wrap .. 2 * Wrap - 1
  BY <1>1
<1> DEFINE half == Wrap \div 2
           window == (Wrap - 1) \div 2
<1>3. /\ half \in Nat /\ 2 * half <= Wrap /\ Wrap <= 2 * half + 1
      /\ window \in Nat /\ 2 * window <= Wrap - 1 /\ Wrap <= 2 * window + 2
      /\ MaxTimeout \in Nat /\ MaxTimeout + 1 < half
  BY Wide
<1>4. /\ (at - n) % Wrap = IF at - n < 0 THEN at - n + Wrap ELSE IF at - n < Wrap THEN at - n ELSE at - n - Wrap
      /\ (n - at) % Wrap = IF n - at < 0 THEN n - at + Wrap ELSE IF n - at < Wrap THEN n - at ELSE n - at - Wrap
  BY <1>1, <1>2, Remainder
<1>5. at - n = l \/ at - n = l - Wrap \/ at - n = l + Wrap
  BY <1>1 DEF IsAhead
<1>6. -l < window
  OBVIOUS
<1> HIDE DEF Clock, half, window
<1>7. (at - n) % Wrap = IF l >= 0 THEN l ELSE l + Wrap
  BY <1>1, <1>3, <1>4, <1>5, <1>6
<1>8. (n - at) % Wrap = IF l > 0 THEN Wrap - l ELSE -l
  BY <1>1, <1>3, <1>4, <1>5, <1>6
<1>9. (IF (at - n) % Wrap < half THEN (at - n) % Wrap ELSE 0) = IF l > 0 THEN l ELSE 0
  BY <1>1, <1>3, <1>6, <1>7
<1>10. (n - at) % Wrap < window <=> l <= 0
  BY <1>1, <1>3, <1>6, <1>8
<1> QED
  BY <1>9, <1>10 DEF half, window

LEMMA NoneIsNoTime == None \notin Clock
BY OverrideAssumption DEF Clock

\* A look drops what has expired, and the outputs then show what is left.
LEMMA LookOK ==
    ASSUME OverrideTypes, NEW n \in Clock, UpdateModel(n), now' = n, connected' = TRUE,
           \A t \in Outputs : slots[t] # None =>
               \E l \in Int : -l < (Wrap - 1) \div 2 /\ l <= MaxTimeout /\ IsAhead(slots[t], n, l)
    PROVE  /\ OverrideInv'
           /\ Behind' = 0
           /\ acting' = [t \in Outputs |-> Left'[t] > 0]
           /\ \A t \in Outputs : slots[t] = None => Left'[t] = 0
           /\ \A t \in Outputs, l \in Int :
                slots[t] # None /\ -l < (Wrap - 1) \div 2 /\ l <= MaxTimeout /\ IsAhead(slots[t], n, l)
                => Left'[t] = IF l > 0 THEN l ELSE 0
<1>1. /\ slots \in [Target -> Clock \cup {None}] /\ Outputs \subseteq Target
      /\ Wrap \in Nat \ {0} /\ n \in 0 .. Wrap - 1 /\ Step \in Nat /\ 0 < Step /\ Step < Wrap /\ MaxTimeout \in Nat
  <2>1. Wrap \div 2 \in Nat /\ 2 * (Wrap \div 2) <= Wrap
    BY Wide
  <2> QED
    BY <2>1, Wide, OverrideAssumption DEF OverrideTypes, Clock
<1>2. nextModel' = (n + Step) % Wrap
  BY DEF UpdateModel
<1>3. nextModel' = IF n + Step < Wrap THEN n + Step ELSE n + Step - Wrap
  BY <1>1, <1>2, Wide, RoundTheClock
<1>4. nextModel' \in Clock
  BY <1>1, <1>3 DEF Clock
<1>5. Behind' = 0
  <2>1. Behind' = (n - (nextModel' - Step)) % Wrap
    BY DEF Behind
  <2>2. n - (nextModel' - Step) = 0 \/ n - (nextModel' - Step) = Wrap
    BY <1>1, <1>3
  <2> QED
    BY <1>1, <2>1, <2>2, Remainder
<1>6. NextLook'
  <2>1. 0 \in 0 .. Step - 1
    BY <1>1
  <2>2. nextModel' = now' + Step - 0 \/ nextModel' = now' + Step - Wrap
    BY <1>1, <1>3
  <2> QED
    BY <1>5, <2>1, <2>2 DEF NextLook
<1>7. slots' = [t \in Target |-> IF t \in Outputs /\ Expired(t, n) THEN None ELSE slots[t]]
  BY DEF UpdateModel
<1>8. slots' \in [Target -> Clock \cup {None}]
  BY <1>1, <1>7
<1>9. acting' = [t \in Outputs |-> slots'[t] # None]
  BY DEF UpdateModel
<1>10. ASSUME NEW t \in Outputs, slots[t] = None
       PROVE  slots'[t] = None /\ Left'[t] = 0
  BY <1>1, <1>7, <1>10 DEF Left
<1>11. ASSUME NEW t \in Outputs, NEW l \in Int, slots[t] # None,
              -l < (Wrap - 1) \div 2, l <= MaxTimeout, IsAhead(slots[t], n, l)
       PROVE  /\ slots'[t] = IF l > 0 THEN slots[t] ELSE None
              /\ Left'[t] = IF l > 0 THEN l ELSE 0
  <2>1. slots[t] \in Clock
    BY <1>1, <1>11
  <2>2. /\ (IF (slots[t] - n) % Wrap < Wrap \div 2 THEN (slots[t] - n) % Wrap ELSE 0) = IF l > 0 THEN l ELSE 0
        /\ (n - slots[t]) % Wrap < (Wrap - 1) \div 2 <=> l <= 0
    BY <1>11, <2>1, NearTimes
  <2>3. Expired(t, n) <=> l <= 0
    BY <1>11, <2>2 DEF Expired
  <2>4. slots'[t] = IF l > 0 THEN slots[t] ELSE None
    BY <1>1, <1>7, <2>3
  <2>5. Left'[t] = IF slots'[t] = None THEN 0
                   ELSE IF (slots'[t] - n) % Wrap < Wrap \div 2 THEN (slots'[t] - n) % Wrap ELSE 0
    BY DEF Left, Until
  <2> QED
    BY <1>11, <2>2, <2>4, <2>5
<1>12. ASSUME NEW t \in Outputs
       PROVE  slots'[t] # None <=> Left'[t] > 0
  <2>1. CASE slots[t] = None
    BY <1>10, <2>1
  <2>2. CASE slots[t] # None
    <3>1. PICK l \in Int : -l < (Wrap - 1) \div 2 /\ l <= MaxTimeout /\ IsAhead(slots[t], n, l)
      BY <2>2
    <3> QED
      BY <1>11, <2>2, <3>1
  <2> QED
    BY <2>1, <2>2
<1>13. acting' = [t \in Outputs |-> Left'[t] > 0]
  BY <1>9, <1>12
<1>14. SlotsNear'
  <2> SUFFICES ASSUME NEW t \in Outputs, slots'[t] # None
               PROVE  \E l \in 1 .. MaxTimeout : IsAhead(slots'[t], n, l)
    BY <1>5 DEF SlotsNear
  <2>1. slots[t] # None
    BY <1>10
  <2>2. PICK l \in Int : -l < (Wrap - 1) \div 2 /\ l <= MaxTimeout /\ IsAhead(slots[t], n, l)
    BY <2>1
  <2>3. l > 0 /\ slots'[t] = slots[t]
    BY <1>11, <2>1, <2>2
  <2> QED
    BY <1>1, <2>2, <2>3
<1>15. OverrideTypes' /\ NobodyOverrides'
  BY <1>4, <1>8, <1>9 DEF OverrideTypes, NobodyOverrides
<1> QED
  BY <1>5, <1>6, <1>10, <1>11, <1>13, <1>14, <1>15 DEF OverrideInv

\* What an override has left, read off where it ends.
LEMMA LeftOf ==
    ASSUME OverrideInv, NEW t \in Outputs
    PROVE  /\ slots[t] = None => Left[t] = 0
           /\ Behind \in 0 .. Step - 1
           /\ slots[t] # None => \E l \in 1 - Behind .. MaxTimeout :
                IsAhead(slots[t], now, l) /\ Left[t] = IF l > 0 THEN l ELSE 0
<1>1. 0 \in 0 .. Step - 1 /\ Step \in Nat
  BY Wide
<1>2. Behind \in 0 .. Step - 1
  BY <1>1 DEF OverrideInv, NextLook, Behind
<1>3. slots[t] = None => Left[t] = 0
  BY DEF Left
<1>4. CASE slots[t] # None
  <2>1. PICK l \in 1 - Behind .. MaxTimeout : IsAhead(slots[t], now, l)
    BY <1>4 DEF OverrideInv, SlotsNear
  <2>2. now \in Clock /\ slots[t] \in Clock
    BY <1>4, OverrideAssumption DEF OverrideInv, OverrideTypes
  <2>3. l \in Int /\ l <= MaxTimeout /\ -l < (Wrap - 1) \div 2
    <3> DEFINE half == Wrap \div 2
               window == (Wrap - 1) \div 2
    <3>1. /\ half \in Nat /\ 2 * half <= Wrap /\ window \in Nat /\ Wrap <= 2 * window + 2
          /\ MaxTimeout \in Nat /\ MaxTimeout > 0 /\ Step \in Nat /\ MaxTimeout + Step + 1 < half /\ Wrap \in Nat
      BY Wide
    <3>2. l \in 1 - Behind .. MaxTimeout /\ Behind \in 0 .. Step - 1
      BY <1>2
    <3> HIDE DEF half, window
    <3>3. l \in Int /\ l <= MaxTimeout /\ -l < window
      BY <3>1, <3>2
    <3> QED
      BY <3>3 DEF window
  <2>4. Left[t] = IF l > 0 THEN l ELSE 0
    BY <1>4, <2>1, <2>2, <2>3, NearTimes DEF Left, Until
  <2> QED
    BY <1>2, <1>3, <1>4, <2>1, <2>4
<1> QED
  BY <1>2, <1>3, <1>4

\* Connecting looks at once; nothing was set before.
LEMMA ConnectOK ==
    ASSUME OverrideInv, Connect
    PROVE  OverrideInv' /\ Promise!Connect
<1>1. /\ ~connected /\ connected' = TRUE /\ UpdateModel(now) /\ now' = now /\ now \in Clock /\ OverrideTypes
      /\ slots = [t \in Target |-> None] /\ Outputs \subseteq Target
  BY OverrideAssumption DEF Connect, OverrideInv, OverrideTypes, NobodyOverrides
<1>2. \A t \in Outputs : slots[t] = None
  BY <1>1
<1>3. /\ OverrideInv' /\ Behind' = 0 /\ acting' = [t \in Outputs |-> Left'[t] > 0]
      /\ \A t \in Outputs : Left'[t] = 0
  BY <1>1, <1>2, LookOK
<1>4. \A t \in Outputs : (Left'[t] > 0) = FALSE
  BY <1>3
<1>5. acting' = [t \in Outputs |-> FALSE]
  BY <1>3, <1>4
<1>6. Left' = Left
  BY <1>2, <1>3 DEF Left
<1> QED
  BY <1>1, <1>3, <1>5, <1>6 DEF Promise!Connect, Left, Behind

LEMMA DisconnectOK ==
    ASSUME OverrideInv, Disconnect
    PROVE  OverrideInv' /\ Promise!Disconnect
<1>1. /\ connected /\ connected' = FALSE
      /\ slots' = [t \in Target |-> None] /\ acting' = [t \in Outputs |-> FALSE]
      /\ now' = now /\ nextModel' = nextModel /\ Outputs \subseteq Target
  BY OverrideAssumption DEF Disconnect
<1>2. OverrideInv'
  BY <1>1 DEF OverrideInv, OverrideTypes, NextLook, SlotsNear, NobodyOverrides
<1>3. Left' = [t \in Outputs |-> 0] /\ Behind' = 0
  BY <1>1 DEF Left, Behind
<1> QED
  BY <1>1, <1>2, <1>3 DEF Promise!Disconnect, Left, Behind

\* A request for one slot leaves the clock, the look and the outputs as they are.
LEMMA OneSlot ==
    ASSUME OverrideInv, NEW t \in Target, NEW at \in Clock \cup {None},
           connected, slots' = [slots EXCEPT ![t] = at],
           UNCHANGED <<now, connected, nextModel, acting>>,
           at # None => \E l \in 1 .. MaxTimeout : IsAhead(at, now, l)
    PROVE  /\ OverrideInv' /\ Behind' = Behind
           /\ \A o \in Outputs : o # t => Left'[o] = Left[o]
<1>1. Behind' = Behind
  BY DEF Behind
<1>2. /\ slots \in [Target -> Clock \cup {None}] /\ Outputs \subseteq Target
      /\ Behind \in 0 .. Step - 1
  <2>1. 0 \in 0 .. Step - 1
    BY Wide
  <2> QED
    BY <2>1, OverrideAssumption DEF OverrideInv, OverrideTypes, NextLook, Behind
<1>3. OverrideTypes' /\ NextLook' /\ NobodyOverrides'
  BY <1>1, <1>2 DEF OverrideInv, OverrideTypes, NextLook, NobodyOverrides
<1>4. SlotsNear'
  <2> SUFFICES ASSUME NEW o \in Outputs, slots'[o] # None
               PROVE  \E l \in 1 - Behind .. MaxTimeout : IsAhead(slots'[o], now, l)
    BY <1>1 DEF SlotsNear
  <2>1. CASE o = t
    <3>1. slots'[o] = at
      BY <1>2, <2>1
    <3>2. PICK l \in 1 .. MaxTimeout : IsAhead(at, now, l)
      BY <3>1
    <3>3. l \in 1 - Behind .. MaxTimeout
      BY <1>2, Wide
    <3> QED
      BY <3>1, <3>2, <3>3
  <2>2. CASE o # t
    BY <1>2, <2>2 DEF OverrideInv, SlotsNear
  <2> QED
    BY <2>1, <2>2
<1>5. ASSUME NEW o \in Outputs, o # t
      PROVE  Left'[o] = Left[o]
  <2>1. slots'[o] = slots[o] /\ now' = now
    BY <1>2, <1>5
  <2> QED
    BY <2>1 DEF Left, Until
<1> QED
  BY <1>1, <1>3, <1>4, <1>5 DEF OverrideInv

\* What the host asks for is clamped to what the promise allows.
LEMMA SetOverrideOK ==
    ASSUME OverrideInv, NEW t \in Target, NEW timeout \in Timeouts, SetOverride(t, timeout)
    PROVE  /\ OverrideInv'
           /\ t \in Outputs => Promise!Set(t)
           /\ t \notin Outputs => Left' = Left /\ UNCHANGED <<connected, Behind, acting>>
<1> DEFINE l == Clamped(timeout)
           at == (now + l) % Wrap
<1>1. l \in 1 .. MaxTimeout /\ l \in Nat /\ l < Wrap
  <2>1. timeout \in Nat /\ MaxTimeout \in Nat /\ MaxTimeout > 0 /\ MaxTimeout < Wrap /\ Wrap \in Nat
    BY Wide, OverrideAssumption
  <2> QED
    BY <2>1 DEF Clamped
<1>2. now \in Clock /\ slots \in [Target -> Clock \cup {None}] /\ Outputs \subseteq Target
  BY OverrideAssumption DEF OverrideInv, OverrideTypes
<1>3. /\ connected /\ slots' = [slots EXCEPT ![t] = at]
      /\ UNCHANGED <<now, connected, nextModel, acting>>
  BY DEF SetOverride
<1> HIDE DEF l
<1>4. at = IF now + l < Wrap THEN now + l ELSE now + l - Wrap
  BY <1>1, <1>2, RoundTheClock
<1> HIDE DEF at
<1>5. at \in Clock /\ IsAhead(at, now, l)
  BY <1>1, <1>2, <1>4, Wide DEF Clock, IsAhead
<1>6. OverrideInv' /\ Behind' = Behind /\ \A o \in Outputs : o # t => Left'[o] = Left[o]
  BY <1>1, <1>3, <1>5, OneSlot
<1>7. CASE t \in Outputs
  <2>1. slots'[t] = at /\ at # None /\ now' = now
    BY <1>2, <1>3, <1>5, NoneIsNoTime
  <2>2. Left'[t] = l
    <3>1. -l < (Wrap - 1) \div 2 /\ l <= MaxTimeout /\ l > 0 /\ l \in Int
      BY <1>1, Wide
    <3>2. (IF (at - now) % Wrap < Wrap \div 2 THEN (at - now) % Wrap ELSE 0) = l
      BY <1>2, <1>5, <3>1, NearTimes
    <3>3. Left'[t] = IF (at - now) % Wrap < Wrap \div 2 THEN (at - now) % Wrap ELSE 0
      BY <1>7, <2>1 DEF Left, Until
    <3> QED
      BY <3>2, <3>3
  <2>3. Left' = [Left EXCEPT ![t] = l]
    <3>1. Left' = [o \in Outputs |-> Left'[o]] /\ Left = [o \in Outputs |-> Left[o]]
      BY DEF Left
    <3> QED
      BY <1>6, <1>7, <2>2, <3>1
  <2> QED
    BY <1>1, <1>3, <1>6, <1>7, <2>3 DEF Promise!Set, Left, Behind
<1>8. CASE t \notin Outputs
  <2>1. Left' = [o \in Outputs |-> Left'[o]] /\ Left = [o \in Outputs |-> Left[o]]
    BY DEF Left
  <2> QED
    BY <1>3, <1>6, <1>8, <2>1
<1> QED
  BY <1>6, <1>7, <1>8

LEMMA ClearOverrideOK ==
    ASSUME OverrideInv, NEW t \in Target, ClearOverride(t)
    PROVE  /\ OverrideInv'
           /\ t \in Outputs => Promise!Clear(t)
           /\ t \notin Outputs => Left' = Left /\ UNCHANGED <<connected, Behind, acting>>
<1>1. /\ connected /\ slots' = [slots EXCEPT ![t] = None]
      /\ UNCHANGED <<now, connected, nextModel, acting>>
  BY DEF ClearOverride
<1>2. slots \in [Target -> Clock \cup {None}] /\ Outputs \subseteq Target
  BY OverrideAssumption DEF OverrideInv, OverrideTypes
<1>3. OverrideInv' /\ Behind' = Behind /\ \A o \in Outputs : o # t => Left'[o] = Left[o]
  BY <1>1, OneSlot
<1>4. Left' = [o \in Outputs |-> Left'[o]] /\ Left = [o \in Outputs |-> Left[o]]
  BY DEF Left
<1>5. CASE t \in Outputs
  <2>1. slots'[t] = None
    BY <1>1, <1>2
  <2>2. Left'[t] = 0
    BY <1>5, <2>1 DEF Left
  <2>3. Left' = [Left EXCEPT ![t] = 0]
    BY <1>3, <1>4, <1>5, <2>2
  <2> QED
    BY <1>1, <1>3, <1>5, <2>3 DEF Promise!Clear, Left, Behind
<1>6. CASE t \notin Outputs
  BY <1>1, <1>3, <1>4, <1>6
<1> QED
  BY <1>3, <1>5, <1>6

\* Nobody is served: the clock is not part of the promise.
LEMMA IdleOK ==
    ASSUME OverrideInv, NEW d \in Lapses, Idle(d)
    PROVE  OverrideInv' /\ Left' = Left /\ UNCHANGED <<connected, Behind, acting>>
<1>1. /\ ~connected /\ slots = [t \in Target |-> None] /\ Outputs \subseteq Target
      /\ now' = (now + d) % Wrap /\ UNCHANGED <<slots, connected, nextModel, acting>>
      /\ OverrideTypes
  BY OverrideAssumption DEF Idle, OverrideInv, NobodyOverrides
<1>2. d \in Nat /\ d < Wrap /\ Wrap \in Nat /\ now \in Clock
  BY <1>1, Wide DEF OverrideTypes
<1>3. now' \in Clock
  <2>1. now' = IF now + d < Wrap THEN now + d ELSE now + d - Wrap
    BY <1>1, <1>2, RoundTheClock
  <2> QED
    BY <1>2, <2>1 DEF Clock
<1>4. OverrideInv'
  BY <1>1, <1>3 DEF OverrideInv, OverrideTypes, NextLook, SlotsNear, NobodyOverrides
<1> QED
  BY <1>1, <1>4 DEF Left, Behind

\* Time that passes between two looks, the clock not having passed by the next one.
LEMMA WaitOK ==
    ASSUME OverrideInv, NEW d \in Lapses, connected, ~Missed,
           now' = IF now + d < Wrap THEN now + d ELSE now + d - Wrap, now' < nextModel,
           UNCHANGED <<slots, acting, nextModel, connected>>
    PROVE  /\ OverrideInv' /\ Behind' = Behind + d /\ Behind' < Step
           /\ now' = now + d \/ now' = now + d - Wrap
<1>1. /\ now \in Clock /\ nextModel \in Clock /\ d \in Nat /\ d > 0 /\ d + Step < Wrap
      /\ Wrap \in Nat \ {0} /\ Step \in Nat /\ Step > 0
  BY Wide DEF OverrideInv, OverrideTypes
<1>2. now' = IF now + d < Wrap THEN now + d ELSE now + d - Wrap
  OBVIOUS
<1>3. now' \in Clock /\ now' < nextModel
  BY <1>1, <1>2 DEF Clock
<1>4. \/ \E u \in 0 .. Step - 1 : Behind = u /\ nextModel = now + Step - u
      \/ Behind = 0 /\ nextModel = now + Step - Wrap
  BY DEF OverrideInv, NextLook
<1>5. \E u \in 0 .. Step - 1 :
        /\ Behind = u /\ u + d < Step /\ nextModel = now' + Step - (u + d)
        /\ now' = now + d \/ now' = now + d - Wrap
  <2>1. CASE \E u \in 0 .. Step - 1 : Behind = u /\ nextModel = now + Step - u
    <3>1. PICK u \in 0 .. Step - 1 : Behind = u /\ nextModel = now + Step - u
      BY <2>1
    <3>2. now < nextModel /\ ~(now' < now)
      BY <1>1, <3>1 DEF Missed, Clock
    <3>3. now' = now + d /\ u + d < Step
      BY <1>1, <1>2, <1>3, <3>1, <3>2 DEF Clock
    <3> QED
      BY <1>1, <3>1, <3>3 DEF Clock
  <2>2. CASE Behind = 0 /\ nextModel = now + Step - Wrap
    <3>1. now' = now + d - Wrap /\ 0 + d < Step /\ nextModel = now' + Step - (0 + d)
      BY <1>1, <1>2, <1>3, <2>2 DEF Clock
    <3>2. 0 \in 0 .. Step - 1
      BY <1>1
    <3> QED
      BY <2>2, <3>1, <3>2
  <2> QED
    BY <1>4, <2>1, <2>2
<1>6. PICK u \in 0 .. Step - 1 :
        /\ Behind = u /\ u + d < Step /\ nextModel = now' + Step - (u + d)
        /\ now' = now + d \/ now' = now + d - Wrap
  BY <1>5
<1> DEFINE v == u + d
<1>7. /\ v \in 0 .. Step - 1 /\ v \in 0 .. Wrap - 1 /\ v \in Int /\ nextModel = now' + Step - v
      /\ now' \in Int /\ nextModel \in Int /\ v = Behind + d
      /\ now' = now + d \/ now' = now + d - Wrap
  <2>1. u \in Int /\ 0 <= u /\ now' \in Int /\ nextModel \in Int
    BY <1>1, <1>3 DEF Clock
  <2>2. v \in Int /\ 0 <= v /\ v < Step /\ v < Wrap
    BY <1>1, <1>6, <2>1
  <2>3. v \in 0 .. Step - 1 /\ v \in 0 .. Wrap - 1
    BY <1>1, <2>2
  <2> QED
    BY <1>6, <2>1, <2>2, <2>3
<1> HIDE DEF v
<1>8. Behind' = v
  <2>1. Behind' = (now' - (nextModel - Step)) % Wrap
    BY DEF Behind
  <2>2. now' - (nextModel - Step) = v
    BY <1>1, <1>7
  <2>3. v \in -Wrap .. 2 * Wrap - 1 /\ ~(v < 0) /\ v < Wrap
    BY <1>1, <1>7
  <2>4. v % Wrap = v
    BY <1>1, <2>3, Remainder
  <2> QED
    BY <2>1, <2>2, <2>4
<1>9. v \in 0 .. Step - 1 /\ nextModel' = now' + Step - v
  BY <1>7
<1>10. NextLook'
  BY <1>8, <1>9 DEF NextLook
<1>11. SlotsNear'
  <2> SUFFICES ASSUME NEW t \in Outputs, slots[t] # None
               PROVE  \E l \in 1 - v .. MaxTimeout : IsAhead(slots[t], now', l)
    BY <1>8 DEF SlotsNear
  <2>1. PICK l \in 1 - Behind .. MaxTimeout : IsAhead(slots[t], now, l)
    BY DEF OverrideInv, SlotsNear
  <2>2. slots[t] \in 0 .. Wrap - 1 /\ Behind \in Int /\ Behind < Step /\ MaxTimeout \in Nat /\ MaxTimeout < Wrap
    <3>1. slots[t] \in 0 .. Wrap - 1
      BY OverrideAssumption DEF OverrideInv, OverrideTypes, Clock
    <3>2. MaxTimeout \in Nat /\ MaxTimeout < Wrap
      BY Wide
    <3> QED
      BY <1>1, <1>6, <3>1, <3>2
  <2>3. l - d \in 1 - v .. MaxTimeout
    BY <1>1, <1>7, <2>1, <2>2
  <2>4. IsAhead(slots[t], now', l - d)
    BY <1>1, <1>3, <1>7, <2>1, <2>2 DEF IsAhead, Clock
  <2> QED
    BY <2>3, <2>4
<1>12. OverrideInv'
  BY <1>3, <1>10, <1>11 DEF OverrideInv, OverrideTypes, NobodyOverrides
<1>13. Behind' = Behind + d /\ Behind' < Step
  BY <1>1, <1>7, <1>8
<1> QED
  BY <1>12, <1>13, <1>7

LEMMA PassOK ==
    ASSUME OverrideInv, NEW d \in Lapses, Pass(d), ~Missed
    PROVE  OverrideInv' /\ Promise!Elapse(d)
<1>1. /\ connected /\ connected' = TRUE /\ now' = (now + d) % Wrap /\ OverrideTypes /\ now \in Clock
      /\ d \in Nat /\ d > 0 /\ Wrap \in Nat \ {0} /\ d + Step < Wrap /\ Step \in Nat
  BY Wide DEF Pass, OverrideInv, OverrideTypes
<1>2. now' = IF now + d < Wrap THEN now + d ELSE now + d - Wrap
  BY <1>1, RoundTheClock
<1>3. now' \in Clock
  BY <1>1, <1>2 DEF Clock
<1>4. ASSUME NEW t \in Outputs, slots[t] # None
      PROVE  \E l \in Int : /\ -l < (Wrap - 1) \div 2 /\ l <= MaxTimeout /\ IsAhead(slots[t], now', l)
                            /\ Left[t] = IF l + d > 0 THEN l + d ELSE 0
  <2>1. PICK l \in 1 - Behind .. MaxTimeout :
          IsAhead(slots[t], now, l) /\ Left[t] = IF l > 0 THEN l ELSE 0
    BY <1>4, LeftOf
  <2>2. Behind \in 0 .. Step - 1 /\ slots[t] \in Clock
    BY <1>4, LeftOf, OverrideAssumption DEF OverrideInv, OverrideTypes
  <2>3. -(l - d) < (Wrap - 1) \div 2 /\ l - d <= MaxTimeout /\ l - d \in Int
    <3> DEFINE half == Wrap \div 2
               window == (Wrap - 1) \div 2
    <3>1. /\ half \in Nat /\ 2 * half <= Wrap /\ window \in Nat /\ Wrap <= 2 * window + 2
          /\ MaxTimeout \in Nat /\ MaxTimeout > 0 /\ Step \in Nat /\ MaxTimeout + Step + d < half /\ Wrap \in Nat
      BY Wide
    <3>2. l \in 1 - Behind .. MaxTimeout /\ Behind \in 0 .. Step - 1 /\ d \in Nat /\ d > 0
      BY <1>1, <2>2
    <3> HIDE DEF half, window
    <3>3. l - d \in Int /\ l - d <= MaxTimeout /\ -(l - d) < window
      BY <3>1, <3>2
    <3> QED
      BY <3>3 DEF window
  <2>4. l > -Wrap /\ l < Wrap
    <3>1. MaxTimeout \in Nat /\ MaxTimeout < Wrap
      BY Wide
    <3> QED
      BY <1>1, <2>2, <3>1
  <2>5. IsAhead(slots[t], now', l - d)
    BY <1>1, <1>2, <1>3, <2>1, <2>2, <2>4 DEF IsAhead, Clock
  <2>6. Left[t] = IF (l - d) + d > 0 THEN (l - d) + d ELSE 0
    BY <1>1, <2>1, <2>2
  <2> QED
    BY <2>3, <2>5, <2>6
<1>5. Left' = [t \in Outputs |-> Left'[t]]
  BY DEF Left
<1>6. CASE now' >= nextModel
  <2>1. UpdateModel(now')
    BY <1>6 DEF Pass
  <2>2. PICK n \in Clock : n = now'
    BY <1>3
  <2>3. /\ OverrideInv' /\ Behind' = 0
        /\ acting' = [t \in Outputs |-> Left'[t] > 0]
        /\ \A t \in Outputs : slots[t] = None => Left'[t] = 0
        /\ \A t \in Outputs, l \in Int :
             slots[t] # None /\ -l < (Wrap - 1) \div 2 /\ l <= MaxTimeout /\ IsAhead(slots[t], n, l)
             => Left'[t] = IF l > 0 THEN l ELSE 0
    BY <1>1, <1>4, <2>1, <2>2, LookOK
  <2>4. ASSUME NEW t \in Outputs
        PROVE  Left'[t] = IF Left[t] > d THEN Left[t] - d ELSE 0
    <3>1. CASE slots[t] = None
      BY <1>1, <2>3, <3>1, LeftOf
    <3>2. CASE slots[t] # None
      <4>1. PICK l \in Int : /\ -l < (Wrap - 1) \div 2 /\ l <= MaxTimeout /\ IsAhead(slots[t], now', l)
                             /\ Left[t] = IF l + d > 0 THEN l + d ELSE 0
        BY <1>4, <3>2
      <4>2. Left'[t] = IF l > 0 THEN l ELSE 0
        BY <2>2, <2>3, <3>2, <4>1
      <4> HIDE DEF Left
      <4> QED
        BY <1>1, <4>1, <4>2
    <3> QED
      BY <3>1, <3>2
  <2>5. Left' = [t \in Outputs |-> IF Left[t] > d THEN Left[t] - d ELSE 0]
    BY <1>5, <2>4
  <2> QED
    BY <1>1, <2>3, <2>5 DEF Promise!Elapse, Left, Behind
<1>7. CASE ~(now' >= nextModel)
  <2>1. UNCHANGED <<slots, acting, nextModel, connected>>
    BY <1>7 DEF Pass
  <2>2. OverrideInv' /\ Behind' = Behind + d /\ Behind' < Step
    <3>1. now' < nextModel
      BY <1>1, <1>3, <1>7 DEF OverrideInv, OverrideTypes, Clock
    <3> QED
      BY <1>1, <1>2, <2>1, <3>1, WaitOK
  <2>3. ASSUME NEW t \in Outputs
        PROVE  Left'[t] = IF Left[t] > d THEN Left[t] - d ELSE 0
    <3>1. CASE slots[t] = None
      BY <1>1, <2>1, <3>1 DEF Left
    <3>2. CASE slots[t] # None
      <4>1. PICK l \in Int : /\ -l < (Wrap - 1) \div 2 /\ l <= MaxTimeout /\ IsAhead(slots[t], now', l)
                             /\ Left[t] = IF l + d > 0 THEN l + d ELSE 0
        BY <1>4, <3>2
      <4>2. PICK n \in Clock : n = now'
        BY <1>3
      <4>3. slots[t] \in Clock
        BY <3>2, OverrideAssumption DEF OverrideInv, OverrideTypes
      <4>4. (IF (slots[t] - n) % Wrap < Wrap \div 2 THEN (slots[t] - n) % Wrap ELSE 0) = IF l > 0 THEN l ELSE 0
        BY <4>1, <4>2, <4>3, NearTimes
      <4>5. Left'[t] = IF l > 0 THEN l ELSE 0
        BY <2>1, <3>2, <4>2, <4>4 DEF Left, Until
      <4> QED
        BY <1>1, <4>1, <4>5
    <3> QED
      BY <3>1, <3>2
  <2>4. Left' = [t \in Outputs |-> IF Left[t] > d THEN Left[t] - d ELSE 0]
    BY <1>5, <2>3
  <2> QED
    BY <1>1, <2>1, <2>2, <2>4 DEF Promise!Elapse, Left, Behind
<1> QED
  BY <1>6, <1>7

LEMMA OverrideInit ==
    ASSUME Init
    PROVE  OverrideInv /\ Promise!Init
<1>1. /\ now \in Clock /\ connected = FALSE /\ nextModel = 0 /\ Outputs \subseteq Target
      /\ slots = [t \in Target |-> None] /\ acting = [t \in Outputs |-> FALSE]
  BY OverrideAssumption DEF Init
<1>2. 0 \in Clock
  BY Wide DEF Clock
<1>3. OverrideInv
  BY <1>1, <1>2 DEF OverrideInv, OverrideTypes, NextLook, SlotsNear, NobodyOverrides
<1>4. Left = [t \in Outputs |-> 0] /\ Behind = 0
  BY <1>1 DEF Left, Behind
<1> QED
  BY <1>1, <1>3, <1>4 DEF Promise!Init, Left, Behind

LEMMA OverrideStep ==
    ASSUME OverrideInv, [Next]_vars, [~Missed]_vars
    PROVE  /\ OverrideInv'
           /\ [Promise!Next]_<<connected, [t \in Outputs |-> IF slots[t] = None THEN 0 ELSE Until(slots[t])],
                               IF connected THEN (now - (nextModel - Step)) % Wrap ELSE 0, acting>>
<1> DEFINE view == <<connected, [t \in Outputs |-> IF slots[t] = None THEN 0 ELSE Until(slots[t])],
                     IF connected THEN (now - (nextModel - Step)) % Wrap ELSE 0, acting>>
<1>1. view = <<connected, Left, Behind, acting>>
  BY DEF Left, Behind
<1>2. view' = <<connected, Left, Behind, acting>>'
  BY DEF Left, Behind
<1> HIDE DEF view
<1>3. ASSUME Next, ~Missed
      PROVE  OverrideInv' /\ (Promise!Next \/ UNCHANGED <<connected, Left, Behind, acting>>)
  <2>1. CASE Connect
    BY <2>1, ConnectOK DEF Promise!Next
  <2>2. CASE Disconnect
    BY <2>2, DisconnectOK DEF Promise!Next
  <2>3. ASSUME NEW d \in Lapses, Pass(d)
        PROVE  OverrideInv' /\ Promise!Next
    BY <1>3, <2>3, PassOK DEF Promise!Next
  <2>4. ASSUME NEW d \in Lapses, Idle(d)
        PROVE  OverrideInv' /\ UNCHANGED <<connected, Left, Behind, acting>>
    BY <2>4, IdleOK
  <2>5. ASSUME NEW t \in Target, ClearOverride(t)
        PROVE  OverrideInv' /\ (Promise!Next \/ UNCHANGED <<connected, Left, Behind, acting>>)
    BY <2>5, ClearOverrideOK DEF Promise!Next
  <2>6. ASSUME NEW t \in Target, NEW timeout \in Timeouts, SetOverride(t, timeout)
        PROVE  OverrideInv' /\ (Promise!Next \/ UNCHANGED <<connected, Left, Behind, acting>>)
    BY <2>6, SetOverrideOK DEF Promise!Next
  <2> QED
    BY <1>3, <2>1, <2>2, <2>3, <2>4, <2>5, <2>6 DEF Next
<1>4. ASSUME UNCHANGED vars
      PROVE  OverrideInv' /\ UNCHANGED <<connected, Left, Behind, acting>>
  <2>1. UNCHANGED <<now, slots, connected, nextModel, acting>>
    BY <1>4 DEF vars
  <2>2. Left' = Left /\ Behind' = Behind
    BY <2>1 DEF Left, Behind, Until
  <2> QED
    BY <2>1, <2>2 DEF OverrideInv, OverrideTypes, NextLook, SlotsNear, NobodyOverrides
<1>5. OverrideInv' /\ (Promise!Next \/ UNCHANGED view)
  BY <1>1, <1>2, <1>3, <1>4
<1> QED
  BY <1>5 DEF view

\* A step of any part is a step of the overrides or leaves them alone.
LEMMA PartsRunOverrides ==
    /\ PartsInit => Init
    /\ [PartsNext]_allVars => [Next]_vars
<1>1. PartsInit => Init
  BY DEF PartsInit
<1> QED
  BY <1>1, PartsAreApart

\* Every override keeps the promise of control.rs, as long as the clock of the simulator does not
\* wrap between a look at the overrides and the time the next one is planned for.
THEOREM OverridesKeepPromise == PartsSpec /\ [][~Missed]_vars => OverridesFailSafe
<1>1. PartsInit => OverrideInv /\ Promise!Init
  BY OverrideInit, PartsRunOverrides
<1>2. OverrideInv /\ [PartsNext]_allVars /\ [~Missed]_vars
      => /\ OverrideInv'
         /\ [Promise!Next]_<<connected, [t \in Outputs |-> IF slots[t] = None THEN 0 ELSE Until(slots[t])],
                             IF connected THEN (now - (nextModel - Step)) % Wrap ELSE 0, acting>>
  BY OverrideStep, PartsRunOverrides
<1> QED
  BY <1>1, <1>2, PTL DEF PartsSpec, OverridesFailSafe, Promise!Spec

\* They keep it across wraps when the loop of serve_connection passes at every count of the clock.
THEOREM OverridesKeepPromiseAlways ==
    ASSUME Lapses = {1}
    PROVE  PartsSpec => OverridesFailSafe
<1>1. OverrideInv /\ [PartsNext]_allVars => [~Missed]_vars
  <2> SUFFICES ASSUME OverrideInv, Next
               PROVE  ~Missed
    BY PartsRunOverrides
  <2>1. /\ now \in Clock /\ nextModel \in Clock /\ Wrap \in Nat /\ 1 < Wrap /\ 1 \in Nat
    BY Wide DEF OverrideInv, OverrideTypes
  <2>2. UNCHANGED now \/ now' = (now + 1) % Wrap
    BY DEF Next, Connect, Disconnect, Pass, Idle, SetOverride, ClearOverride
  <2>3. (now + 1) % Wrap = IF now + 1 < Wrap THEN now + 1 ELSE now + 1 - Wrap
    BY <2>1, RoundTheClock
  <2> QED
    BY <2>1, <2>2, <2>3 DEF Missed, Clock
<1>2. PartsInit => OverrideInv /\ Promise!Init
  BY OverrideInit, PartsRunOverrides
<1>3. OverrideInv /\ [PartsNext]_allVars
      => /\ OverrideInv'
         /\ [Promise!Next]_<<connected, [t \in Outputs |-> IF slots[t] = None THEN 0 ELSE Until(slots[t])],
                             IF connected THEN (now - (nextModel - Step)) % Wrap ELSE 0, acting>>
  BY <1>1, OverrideStep, PartsRunOverrides
<1> QED
  BY <1>2, <1>3, PTL DEF PartsSpec, OverridesFailSafe, Promise!Spec

----------------------------------------------------------------------------
(* Fuelling.                                                               *)

\* The controller's own clock is the time since the conditions were first met.
CutInv ==
    /\ dfco.since = overrun
    /\ dfco.active => dfco.since # None /\ dfco.since >= Delay

\* What is left of the pause and what has gone by make a whole pause, and a paused loop
\* corrects nothing.
PauseInv ==
    IF loop.paused THEN loop.correction = 0 /\ loop.timer + calm >= Pause
    ELSE calm >= Pause

FuelInv == F!TypeOK /\ CutInv /\ PauseInv

----------------------------------------------------------------------------
(* Fuelling: the helpers.                                                  *)

LEMMA ClampLimits ==
    ASSUME NEW x \in Int, NEW m \in Nat
    PROVE  /\ F!Clamp(x, m) \in -m .. m
           /\ x = 0 => F!Clamp(x, m) = 0
BY DEF F!Clamp

LEMMA SignBounds ==
    ASSUME NEW x \in Int
    PROVE  F!Sign(x) \in -1 .. 1 /\ (x > 0 => F!Sign(x) = 1) /\ (x < 0 => F!Sign(x) = -1) /\ (x = 0 => F!Sign(x) = 0)
BY DEF F!Sign, F!Clamp

LEMMA LaterBounds ==
    ASSUME F!Parameters, NEW t \in 0 .. Delay \cup {None}, NEW g \in Nat
    PROVE  /\ F!Later(t, g, Delay) \in 0 .. Delay \cup {None}
           /\ F!Later(t, g, Delay) = None <=> t = None
           /\ t # None /\ t >= Delay => F!Later(t, g, Delay) >= Delay
BY DEF F!Parameters, F!Later, F!Least

\* The type of loop; the correction of a controller that works may be any whole number of steps.
Loop == [paused : BOOLEAN, timer : 0 .. Pause, integral : -MaxIntegral .. MaxIntegral, correction : Int]

LEMMA TriggerPauseType ==
    ASSUME F!Parameters, NEW l \in Loop
    PROVE  /\ F!TriggerPause(l) \in Loop
           /\ F!TriggerPause(l).paused /\ F!TriggerPause(l).timer = Pause
           /\ F!TriggerPause(l).integral = l.integral
<1>1. Pause \in 0 .. Pause
  BY DEF F!Parameters
<1> QED
  BY <1>1 DEF Loop, F!TriggerPause

\* Correcting leaves the pause as it is.
LEMMA CorrectType ==
    ASSUME F!Parameters, NEW l \in Loop, NEW window \in BOOLEAN, NEW lambda \in Int, NEW dt \in Nat
    PROVE  /\ F!Correct(l, window, lambda, dt) \in Loop
           /\ F!Correct(l, window, lambda, dt).paused = l.paused
           /\ F!Correct(l, window, lambda, dt).timer = l.timer
<1> DEFINE wound == F!Clamp(l.integral + F!Sign(lambda) * dt, MaxIntegral)
           eased == l.integral - F!Sign(l.integral)
<1>1. l.integral \in -MaxIntegral .. MaxIntegral /\ MaxIntegral \in Nat /\ Gain \in Nat
  BY DEF F!Parameters, Loop
<1>2. F!Sign(lambda) \in -1 .. 1
  BY SignBounds
<1>3. l.integral \in Int
  BY <1>1
<1>4. F!Sign(lambda) * dt \in Int /\ Gain * F!Sign(lambda) \in Int
  BY <1>1, <1>2
<1>5. wound \in -MaxIntegral .. MaxIntegral
  <2>1. l.integral + F!Sign(lambda) * dt \in Int
    BY <1>3, <1>4
  <2> QED
    BY <2>1, <1>1, ClampLimits
<1>6. Gain * F!Sign(lambda) + wound \in Int
  BY <1>1, <1>4, <1>5
<1>7. eased \in -MaxIntegral .. MaxIntegral /\ eased \in Int
  BY <1>1, <1>3, SignBounds
<1> HIDE DEF wound, eased
<1>8. F!Correct(l, window, lambda, dt) =
        IF ~window THEN [l EXCEPT !.correction = 0]
        ELSE IF lambda \in -1 .. 1 THEN [l EXCEPT !.integral = eased, !.correction = eased]
        ELSE [l EXCEPT !.integral = wound, !.correction = Gain * F!Sign(lambda) + wound]
  BY DEF F!Correct, wound, eased
<1>9. CASE ~window
  BY <1>8, <1>9 DEF Loop
<1>10. CASE window /\ lambda \in -1 .. 1
  BY <1>7, <1>8, <1>10 DEF Loop
<1>11. CASE window /\ lambda \notin -1 .. 1
  BY <1>5, <1>6, <1>8, <1>11 DEF Loop
<1> QED
  BY <1>9, <1>10, <1>11

\* A pause longer than the pass goes on, with everything learnt as it was; any other ends.
LEMMA UpdateLoopType ==
    ASSUME F!Parameters, NEW l \in Loop, NEW window \in BOOLEAN, NEW lambda \in Int, NEW dt \in Nat
    PROVE  LET next == F!UpdateLoop(l, window, lambda, dt) IN
           /\ next \in Loop
           /\ l.paused /\ l.timer > dt =>
                /\ next.paused /\ next.timer = l.timer - dt
                /\ next.correction = 0 /\ next.integral = l.integral
           /\ ~(l.paused /\ l.timer > dt) => ~next.paused
<1>1. CASE l.paused /\ l.timer > dt
  <2> DEFINE left == l.timer - dt
  <2>1. F!UpdateLoop(l, window, lambda, dt) = [l EXCEPT !.timer = left, !.correction = 0]
    BY <1>1 DEF F!UpdateLoop
  <2>2. left \in 0 .. Pause
    BY <1>1 DEF Loop, F!Parameters
  <2>3. left = l.timer - dt
    OBVIOUS
  <2> HIDE DEF left
  <2>4. [l EXCEPT !.timer = left, !.correction = 0] \in Loop
    <3>1. [l EXCEPT !.timer = left] \in Loop
      BY <2>2 DEF Loop
    <3>2. 0 \in Int
      OBVIOUS
    <3> QED
      BY <3>1, <3>2 DEF Loop
  <2>5. /\ [l EXCEPT !.timer = left, !.correction = 0].paused = l.paused
        /\ [l EXCEPT !.timer = left, !.correction = 0].timer = left
        /\ [l EXCEPT !.timer = left, !.correction = 0].correction = 0
        /\ [l EXCEPT !.timer = left, !.correction = 0].integral = l.integral
    BY DEF Loop
  <2> QED
    BY <1>1, <2>1, <2>3, <2>4, <2>5
<1>2. CASE ~(l.paused /\ l.timer > dt)
  <2> DEFINE woken == [l EXCEPT !.paused = FALSE, !.timer = 0]
  <2>1. woken \in Loop /\ ~woken.paused
    <3>1. 0 \in 0 .. Pause
      BY DEF F!Parameters
    <3> QED
      BY <3>1 DEF Loop
  <2>2. F!UpdateLoop(l, window, lambda, dt) = F!Correct(woken, window, lambda, dt)
    BY <1>2 DEF F!UpdateLoop
  <2> HIDE DEF woken
  <2> QED
    BY <1>2, <2>1, <2>2, CorrectType
<1> QED
  BY <1>1, <1>2

----------------------------------------------------------------------------
(* Fuelling: one cycle.                                                    *)

LEMMA FuelInitOK ==
    ASSUME F!Parameters, F!Init
    PROVE  FuelInv
BY DEF F!Parameters, F!Init, FuelInv, F!TypeOK, CutInv, PauseInv

\* The cut and the time since its conditions were met go together.
LEMMA CutsAreEarned ==
    ASSUME F!Parameters, FuelInv, NEW g \in Gaps, NEW met \in BOOLEAN,
           dfco' = F!UpdateDfco(met, g),
           overrun' = IF ~met THEN None ELSE IF overrun = None THEN 0 ELSE F!Later(overrun, g, Delay)
    PROVE  /\ dfco' \in [active : BOOLEAN, since : 0 .. Delay \cup {None}]
           /\ overrun' \in 0 .. Delay \cup {None}
           /\ CutInv'
<1> DEFINE later == F!Later(dfco.since, g, Delay)
<1>1. /\ dfco \in [active : BOOLEAN, since : 0 .. Delay \cup {None}]
      /\ dfco.since = overrun
      /\ dfco.active => dfco.since # None /\ dfco.since >= Delay
      /\ Delay \in Nat /\ g \in Nat /\ None \notin Int
  BY DEF FuelInv, F!TypeOK, CutInv, F!Parameters
<1>2. /\ later \in 0 .. Delay \cup {None}
      /\ later = None <=> dfco.since = None
      /\ dfco.since # None /\ dfco.since >= Delay => later >= Delay
  BY <1>1, LaterBounds
<1>3. dfco' = IF ~met THEN [active |-> FALSE, since |-> None]
              ELSE IF later = None THEN [active |-> FALSE, since |-> 0]
              ELSE [active |-> dfco.active \/ later >= Delay, since |-> later]
  BY DEF F!UpdateDfco
<1>4. overrun' = IF ~met THEN None ELSE IF overrun = None THEN 0 ELSE later
  BY <1>1
<1> HIDE DEF later
<1>5. CASE ~met
  BY <1>1, <1>3, <1>4, <1>5 DEF CutInv
<1>6. CASE met /\ later = None
  BY <1>1, <1>2, <1>3, <1>4, <1>6 DEF CutInv
<1>7. CASE met /\ later # None
  <2>1. dfco' = [active |-> dfco.active \/ later >= Delay, since |-> later] /\ overrun' = later
    BY <1>1, <1>2, <1>3, <1>4, <1>7
  <2>2. (dfco.active \/ later >= Delay) \in BOOLEAN
    OBVIOUS
  <2> QED
    BY <1>1, <1>2, <1>7, <2>1, <2>2 DEF CutInv
<1> QED
  BY <1>5, <1>6, <1>7

\* A cut starts the pause again before the loop runs, so the pause of that cycle is whole.
LEMMA PausesAreKept ==
    ASSUME F!Parameters, FuelInv, NEW dt \in Steps, NEW window \in BOOLEAN, NEW lambda \in Int,
           dfco'.active \in BOOLEAN,
           loop' = F!UpdateLoop(IF dfco'.active THEN F!TriggerPause(loop) ELSE loop, window, lambda, dt),
           calm' = IF dfco'.active THEN F!Least(dt, Pause) ELSE F!Least(calm + dt, Pause)
    PROVE  /\ loop' \in Loop /\ calm' \in 0 .. Pause
           /\ PauseInv'
           /\ dfco'.active => loop'.integral = loop.integral /\ loop'.correction = 0
<1>1. /\ loop \in Loop /\ calm \in 0 .. Pause /\ Pause \in Nat
      /\ dt \in Nat /\ dt < Pause
  BY DEF FuelInv, F!TypeOK, Loop, F!Parameters
<1>2. CASE dfco'.active
  <2> DEFINE l == F!TriggerPause(loop)
  <2>1. l \in Loop /\ l.paused /\ l.timer = Pause /\ l.integral = loop.integral
    BY <1>1, TriggerPauseType
  <2>2. loop' = F!UpdateLoop(l, window, lambda, dt)
    BY <1>2
  <2> HIDE DEF l
  <2>3. loop' \in Loop /\ loop'.paused /\ loop'.timer = Pause - dt
        /\ loop'.correction = 0 /\ loop'.integral = loop.integral
    BY <1>1, <2>1, <2>2, UpdateLoopType
  <2>4. calm' = dt
    BY <1>1, <1>2 DEF F!Least
  <2> QED
    BY <1>1, <2>3, <2>4 DEF PauseInv
<1>3. CASE ~dfco'.active
  <2>1. loop' = F!UpdateLoop(loop, window, lambda, dt)
    BY <1>3
  <2>2. calm' = F!Least(calm + dt, Pause)
    BY <1>3
  <2>3. /\ loop' \in Loop
        /\ loop.paused /\ loop.timer > dt =>
             loop'.paused /\ loop'.timer = loop.timer - dt /\ loop'.correction = 0
        /\ ~(loop.paused /\ loop.timer > dt) => ~loop'.paused
    BY <1>1, <2>1, UpdateLoopType
  <2>4. calm' \in 0 .. Pause
    BY <1>1, <2>2 DEF F!Least
  <2>5. loop.timer \in 0 .. Pause
    BY <1>1 DEF Loop
  <2>6. PauseInv'
    BY <1>1, <2>2, <2>3, <2>4, <2>5 DEF PauseInv, FuelInv, F!Least
  <2> QED
    BY <1>3, <2>3, <2>4, <2>6
<1> QED
  BY <1>2, <1>3

\* A cycle keeps the invariant, and one with fuel cut off teaches the loop nothing.
LEMMA CycleOK ==
    ASSUME F!Parameters, FuelInv, NEW g \in Gaps, NEW dt \in Steps,
           NEW met \in BOOLEAN, NEW window \in BOOLEAN, NEW even \in BOOLEAN, NEW tipIn \in BOOLEAN,
           NEW c \in Cells, NEW lambda \in (-2 .. 2) \cup {None},
           F!Cycle(g, dt, met, window, lambda, even, c, tipIn)
    PROVE  /\ FuelInv'
           /\ dfco'.active => loop'.integral = loop.integral /\ cl_correction' = 0
<1> DEFINE read == IF lambda = None THEN 0 ELSE lambda
<1>1. read \in Int
  OBVIOUS
<1>2. /\ dfco' \in [active : BOOLEAN, since : 0 .. Delay \cup {None}]
      /\ overrun' \in 0 .. Delay \cup {None}
      /\ CutInv'
  BY CutsAreEarned DEF F!Cycle
<1>3. /\ loop' \in Loop /\ calm' \in 0 .. Pause
      /\ PauseInv'
      /\ dfco'.active => loop'.integral = loop.integral /\ loop'.correction = 0
  BY <1>1, <1>2, PausesAreKept DEF F!Cycle
<1>4. /\ cl_correction' \in -MaxCorrection .. MaxCorrection
      /\ loop'.correction = 0 => cl_correction' = 0
  <2>1. loop'.correction \in Int /\ MaxCorrection \in Nat
    BY <1>3 DEF Loop, F!Parameters
  <2> QED
    BY <2>1, ClampLimits DEF F!Cycle
<1>5. cells' \in [Cells -> [trim : -MaxTrim .. MaxTrim, samples : 0 .. MinSamples]]
  <2>1. cells' = F!Learn(c, lambda, even)
    BY DEF F!Cycle
  <2>2. cells \in [Cells -> [trim : -MaxTrim .. MaxTrim, samples : 0 .. MinSamples]]
    BY DEF FuelInv, F!TypeOK
  <2>3. CASE lambda = None \/ ~even
    BY <2>1, <2>2, <2>3 DEF F!Learn
  <2>4. CASE ~(lambda = None \/ ~even)
    <3> DEFINE cell == [trim |-> F!Clamp(cells[c].trim + F!Sign(lambda), MaxTrim),
                        samples |-> F!Least(cells[c].samples + 1, MinSamples)]
    <3>1. /\ cells[c].trim \in Int /\ cells[c].samples \in 0 .. MinSamples
          /\ lambda \in Int /\ MaxTrim \in Nat /\ MinSamples \in Nat
      BY <2>2, <2>4 DEF F!Parameters
    <3>2. cells[c].trim + F!Sign(lambda) \in Int
      BY <3>1, SignBounds
    <3>3. F!Clamp(cells[c].trim + F!Sign(lambda), MaxTrim) \in -MaxTrim .. MaxTrim
      BY <3>1, <3>2, ClampLimits
    <3>4. F!Least(cells[c].samples + 1, MinSamples) \in 0 .. MinSamples
      BY <3>1 DEF F!Least
    <3>5. cells' = [cells EXCEPT ![c].trim = cell.trim, ![c].samples = cell.samples]
      BY <2>1, <2>4 DEF F!Learn
    <3>6. cell \in [trim : -MaxTrim .. MaxTrim, samples : 0 .. MinSamples]
      BY <3>3, <3>4
    <3> HIDE DEF cell
    <3> QED
      BY <2>2, <3>5, <3>6
  <2> QED
    BY <2>3, <2>4
<1>6. ltft_correction' \in -MaxTrim .. MaxTrim
  BY <1>5 DEF F!Cycle, F!Trim, F!Parameters
<1>7. accel' \in 0 .. Duration \cup {None} /\ accel_mult' \in {0, 1}
  BY DEF F!Cycle, F!Enrich, FuelInv, F!TypeOK, F!Parameters
<1> QED
  BY <1>2, <1>3, <1>4, <1>5, <1>6, <1>7 DEF FuelInv, F!TypeOK, Loop

LEMMA FuelStepOK ==
    ASSUME F!Parameters, FuelInv, [F!Next]_F!vars
    PROVE  FuelInv' /\ [dfco'.active => loop'.integral = loop.integral /\ cl_correction' = 0]_F!vars
<1>1. CASE F!Next
  BY <1>1, CycleOK DEF F!Next
<1>2. CASE UNCHANGED F!vars
  BY <1>2 DEF F!vars, FuelInv, F!TypeOK, CutInv, PauseInv
<1> QED
  BY <1>1, <1>2

----------------------------------------------------------------------------
(* Fuelling: the theorems.                                                 *)

LEMMA FuellingStep ==
    ASSUME FuelInv, [PartsNext]_allVars
    PROVE  FuelInv' /\ [dfco'.active => loop'.integral = loop.integral /\ cl_correction' = 0]_F!vars
<1>1. F!Next \/ UNCHANGED fuellingVars
  BY PartsAreApart
<1>2. [F!Next]_F!vars
  BY <1>1 DEF fuellingVars, F!vars
<1> QED
  BY <1>2, PartsAssumption, FuelStepOK

LEMMA FuellingInvariance == PartsSpec => []FuelInv
<1>1. PartsInit => FuelInv
  BY PartsAssumption, FuelInitOK DEF PartsInit
<1>2. FuelInv /\ [PartsNext]_allVars => FuelInv'
  BY FuellingStep
<1> QED
  BY <1>1, <1>2, PTL DEF PartsSpec

\* DfcoController, the closed loop, the long-term trim and the enrichment keep their types, and
\* every correction its limit (fuel/mod.rs, fuel/ltft.rs).
THEOREM FuelTypes == PartsSpec => []F!TypeOK
<1>1. FuelInv => F!TypeOK
  BY DEF FuelInv
<1> QED
  BY <1>1, FuellingInvariance, PTL

\* Fuel is cut only after the overrun conditions held at every cycle for the whole delay
\* (DfcoController::update).
THEOREM CutEarned == PartsSpec => []CutIsEarned
<1>1. FuelInv => CutIsEarned
  BY DEF FuelInv, CutInv, CutIsEarned, F!CutIsEarned
<1> QED
  BY <1>1, FuellingInvariance, PTL

\* What the lambda sensor reads while no fuel is injected moves neither the integral nor the
\* correction of the closed loop (control_loop).
THEOREM NothingLearnt == PartsSpec => CutTeachesNothing
<1>1. FuelInv /\ [PartsNext]_allVars
      => [dfco'.active => loop'.integral = loop.integral /\ cl_correction' = 0]_F!vars
  BY FuellingStep
<1> QED
  BY <1>1, FuellingInvariance, PTL DEF PartsSpec, CutTeachesNothing, F!CutTeachesNothing

----------------------------------------------------------------------------
(* Gearbox.                                                                *)

\* The timer of a shift and the time since it began make a whole shift, and the target is the
\* gear it began with.
GearInv ==
    /\ since \in 0 .. Shift
    /\ state = "Shifting" => shift_timer = Shift - since /\ target_gear = begun

LEMMA GearStep ==
    ASSUME GearInv, [PartsNext]_allVars
    PROVE  /\ GearInv'
           /\ current_gear' # current_gear =>
                current_gear \in {G!Park, G!Neutral} \/ (current_gear' = begun /\ took' = Shift)
<1>1. Top \in Nat \ {0} /\ Shift \in Nat /\ Updates \subseteq Nat /\ since \in 0 .. Shift
  BY PartsAssumption DEF G!Parameters, GearInv
<1> DEFINE Goal ==
        /\ GearInv'
        /\ current_gear' # current_gear =>
             current_gear \in {G!Park, G!Neutral} \/ (current_gear' = begun /\ took' = Shift)
<1>2. ASSUME NEW m \in {"Manual", "Automatic"}, G!SetMode(m)
      PROVE  Goal
  BY <1>2 DEF GearInv, G!SetMode
<1>3. ASSUME NEW gear, G!Request(gear)
      PROVE  Goal
  BY <1>1, <1>3 DEF GearInv, G!Request, G!Engage
<1>4. CASE G!Upshift \/ G!Downshift
  BY <1>3, <1>4 DEF G!Upshift, G!Downshift
<1>5. ASSUME NEW rpm \in {"high", "between", "low"}, NEW dt \in Updates, G!Update(rpm, dt)
      PROVE  Goal
  <2> DEFINE ends == state = "Shifting" /\ shift_timer <= dt
             g == IF ends THEN target_gear ELSE current_gear
             s == IF ends THEN "Normal" ELSE state
             spent == G!Least(since + dt, Shift)
             next == IF rpm = "high" THEN G!Higher(g) ELSE G!Lower(g)
  <2>1. dt \in Nat /\ spent \in 0 .. Shift /\ (since + dt >= Shift => spent = Shift)
        /\ (since + dt < Shift => spent = since + dt)
    BY <1>1 DEF G!Least
  <2>2. ends => spent = Shift /\ took' = Shift /\ target_gear = begun
    BY <1>1, <1>5, <2>1 DEF GearInv, G!Update
  <2>3. \/ G!Engage(g, next, spent) /\ s = "Normal" /\ g \in 1 .. Top
        \/ /\ current_gear' = g /\ state' = s /\ since' = spent
           /\ shift_timer' = IF state = "Shifting" THEN G!Less(shift_timer, dt) ELSE shift_timer
           /\ UNCHANGED <<target_gear, begun>>
    BY <1>5 DEF G!Update
  <2>4. CASE G!Engage(g, next, spent) /\ s = "Normal" /\ g \in 1 .. Top
    <3>1. since' \in 0 .. Shift
      BY <1>1, <2>1, <2>4 DEF G!Engage
    <3>2. g \notin {G!Park, G!Neutral}
      BY <1>1, <2>4 DEF G!Park, G!Neutral
    <3>3. current_gear' = g
      BY <2>4, <3>2 DEF G!Engage
    <3>4. state' = "Shifting" => shift_timer' = Shift - since' /\ target_gear' = begun'
      BY <1>1, <2>4, <3>2 DEF G!Engage
    <3> QED
      BY <2>2, <3>1, <3>3, <3>4 DEF GearInv
  <2>5. CASE /\ current_gear' = g /\ state' = s /\ since' = spent
             /\ shift_timer' = IF state = "Shifting" THEN G!Less(shift_timer, dt) ELSE shift_timer
             /\ UNCHANGED <<target_gear, begun>>
    BY <1>1, <2>1, <2>2, <2>5 DEF GearInv, G!Less
  <2> QED
    BY <2>3, <2>4, <2>5
<1>6. CASE UNCHANGED gearVars
  BY <1>6 DEF gearVars, GearInv
<1> QED
  BY <1>2, <1>3, <1>4, <1>5, <1>6, PartsAreApart DEF G!Next

\* The gear in mesh changes out of Park or Neutral, or when a shift has had its whole time, and
\* then to the gear that was asked for when it began (tcu.rs).
THEOREM ShiftsAreWhole == PartsSpec => ShiftIsWhole
<1>1. PartsInit => GearInv
  BY PartsAssumption DEF PartsInit, G!Init, G!Parameters, GearInv
<1>2. GearInv /\ [PartsNext]_allVars => GearInv'
  BY GearStep
<1>3. GearInv /\ [PartsNext]_allVars
      => [current_gear' # current_gear =>
            current_gear \in {G!Park, G!Neutral} \/ (current_gear' = begun /\ took' = Shift)]_G!vars
  BY GearStep
<1> QED
  BY <1>1, <1>2, <1>3, PTL DEF PartsSpec, ShiftIsWhole, G!ShiftIsWhole

----------------------------------------------------------------------------
(* Start/stop and shutdown.                                                *)

StartStates == {"Stopped", "Cranking", "Running", "Stopping", "StartFailed"}
StartReasons == {None, "Timeout", "NoRpm"}
ShutStates == {"Running", "FuelPumpOn", "Coasting", "Stopped"}
ShutReasons == {None, "KeyOff", "EmergencyStop", "LowBattery", "Timeout"}

\* What is left of the crank timer and what has gone by make the crank timeout.
StartInv ==
    /\ start \in [state : StartStates, timer : Nat, reason : StartReasons, retry : Nat]
    /\ starter \in BOOLEAN /\ cranked \in 0 .. CrankTimeout
    /\ start.state = "Cranking" => start.timer = CrankTimeout - cranked
    /\ starter => cranked < CrankTimeout

\* The same for the pump.
ShutInv ==
    /\ shut \in [state : ShutStates, timer : Nat, reason : ShutReasons, uptime : Nat]
    /\ shut_pump \in BOOLEAN /\ pumped \in 0 .. PumpRun
    /\ shut.state = "FuelPumpOn" => shut.timer = PumpRun - pumped
    /\ shut_pump => pumped < PumpRun
    /\ shut.reason = asked

LEMMA KeyTimes ==
    /\ CrankTimeout \in Nat /\ Grace \in Nat /\ RetryDelay \in Nat
    /\ PumpRun \in Nat /\ StartTimeout \in Nat /\ Updates \subseteq Nat
BY PartsAssumption DEF K!Parameters

LEMMA StepStartOK ==
    ASSUME StartInv, NEW rpm \in K!Speed, NEW dt \in Updates
    PROVE  LET next == K!StepStart(rpm, dt) IN
           /\ next \in [state : StartStates, timer : Nat, reason : StartReasons, retry : Nat]
           /\ next.state = "Cranking" =>
                start.state = "Cranking" /\ next.timer = K!Less(start.timer, dt) /\ next.timer # 0
<1> DEFINE S == [state : StartStates, timer : Nat, reason : StartReasons, retry : Nat]
           left == K!Less(start.timer, dt)
           s == [start EXCEPT !.timer = left]
<1>1. start \in S /\ dt \in Nat /\ RetryDelay \in Nat /\ CrankTimeout \in Nat /\ Grace \in Nat
  BY KeyTimes DEF StartInv
<1>2. left \in Nat /\ K!Less(start.retry, dt) \in Nat
  BY <1>1 DEF K!Less
<1>3. s \in S /\ s.timer = left /\ s.state = start.state
  BY <1>1, <1>2
<1> HIDE DEF left, s
<1>4. [s EXCEPT !.state = "Running"] \in S /\ [s EXCEPT !.state = "Running"].state = "Running"
  BY <1>3 DEF StartStates
<1>5. ASSUME NEW reason \in {"Timeout", "NoRpm"}
      PROVE  K!Fail(s, reason) \in S /\ K!Fail(s, reason).state = "StartFailed"
  <2>1. [s EXCEPT !.state = "StartFailed"] \in S
    BY <1>3 DEF StartStates
  <2>2. [[s EXCEPT !.state = "StartFailed"] EXCEPT !.reason = reason] \in S
    BY <2>1 DEF StartReasons
  <2> QED
    BY <1>1, <1>3, <2>1, <2>2 DEF K!Fail, StartStates, StartReasons
<1>6. CASE start.state = "Cranking"
  <2>1. K!StepStart(rpm, dt) =
          IF rpm = "running" THEN [s EXCEPT !.state = "Running"]
          ELSE IF s.timer = 0 THEN K!Fail(s, "Timeout")
          ELSE IF rpm = "rest" /\ s.timer < CrankTimeout - Grace THEN K!Fail(s, "NoRpm")
          ELSE s
    BY <1>6 DEF K!StepStart, s, left
  <2> QED
    BY <1>3, <1>4, <1>5, <1>6, <2>1 DEF left
<1>7. CASE start.state \in {"Running", "Stopping"}
  <2>1. K!StepStart(rpm, dt) = IF rpm \in K!Stopping THEN [start EXCEPT !.state = "Stopped"] ELSE start
    BY <1>7 DEF K!StepStart
  <2> QED
    BY <1>1, <1>7, <2>1 DEF StartStates
<1>8. CASE start.state = "StartFailed"
  <2>1. K!StepStart(rpm, dt) = [start EXCEPT !.retry = K!Less(start.retry, dt)]
    BY <1>8 DEF K!StepStart
  <2> QED
    BY <1>1, <1>2, <1>8, <2>1
<1>9. CASE start.state = "Stopped"
  <2>1. K!StepStart(rpm, dt) = start
    BY <1>9 DEF K!StepStart
  <2> QED
    BY <1>1, <1>9, <2>1
<1> QED
  BY <1>1, <1>6, <1>7, <1>8, <1>9 DEF StartStates

LEMMA StartStep ==
    ASSUME StartInv, K!Next \/ UNCHANGED keyVars
    PROVE  StartInv'
<1>1. /\ start \in [state : StartStates, timer : Nat, reason : StartReasons, retry : Nat]
      /\ CrankTimeout \in Nat /\ Updates \subseteq Nat /\ cranked \in 0 .. CrankTimeout
  BY KeyTimes DEF StartInv
<1>2. CASE K!Start
  BY <1>1, <1>2 DEF StartInv, K!Start, K!Cranking, StartStates, StartReasons
<1>3. CASE K!Stop
  <2>1. /\ start' = [start EXCEPT !.state = "Stopping"] /\ UNCHANGED <<starter, cranked>>
    BY <1>3 DEF K!Stop
  <2> QED
    BY <1>1, <2>1 DEF StartInv, StartStates
<1>4. CASE K!ResetStart
  BY <1>1, <1>4 DEF StartInv, K!ResetStart, StartStates, StartReasons
<1>5. ASSUME NEW rpm \in K!Speed, NEW dt \in Updates, K!UpdateStart(rpm, dt)
      PROVE  StartInv'
  <2>1. /\ start' \in [state : StartStates, timer : Nat, reason : StartReasons, retry : Nat]
        /\ start'.state = "Cranking" =>
             start.state = "Cranking" /\ start'.timer = K!Less(start.timer, dt) /\ start'.timer # 0
    BY <1>5, StepStartOK DEF K!UpdateStart
  <2>2. starter' = (start'.state = "Cranking") /\ cranked' = K!Least(cranked + dt, CrankTimeout)
    BY <1>5 DEF K!UpdateStart
  <2>3. cranked' \in 0 .. CrankTimeout
    BY <1>1, <2>2 DEF K!Least
  <2>4. start'.state = "Cranking" => start'.timer = CrankTimeout - cranked' /\ cranked' < CrankTimeout
    BY <1>1, <2>1, <2>2 DEF StartInv, K!Least, K!Less
  <2> QED
    BY <2>1, <2>2, <2>3, <2>4 DEF StartInv
<1>6. CASE UNCHANGED <<start, starter, cranked>>
  BY <1>6 DEF StartInv
<1> QED
  BY <1>2, <1>3, <1>4, <1>5, <1>6
     DEF K!Next, K!ResetShutdown, K!Shutdown, K!UpdateShutdown, keyVars

LEMMA ShutDownOK ==
    ASSUME NEW s \in [state : ShutStates, timer : Nat, reason : ShutReasons, uptime : Nat],
           NEW reason \in ShutReasons
    PROVE  LET next == K!ShutDown(s, reason) IN
           /\ next \in [state : ShutStates, timer : Nat, reason : ShutReasons, uptime : Nat]
           /\ s.state = "Running" =>
                next.state = "FuelPumpOn" /\ next.timer = PumpRun /\ next.reason = reason
           /\ s.state # "Running" => next = s
<1>1. CASE s.state = "Running"
  <2> DEFINE on == [[s EXCEPT !.state = "FuelPumpOn"] EXCEPT !.reason = reason]
  <2>1. on \in [state : ShutStates, timer : Nat, reason : ShutReasons, uptime : Nat]
        /\ on.state = "FuelPumpOn" /\ on.reason = reason
    BY DEF ShutStates
  <2> HIDE DEF on
  <2>2. K!ShutDown(s, reason) = [on EXCEPT !.timer = PumpRun]
    BY <1>1 DEF K!ShutDown, on
  <2> QED
    BY <1>1, <2>1, <2>2, KeyTimes
<1>2. CASE s.state # "Running"
  BY <1>2 DEF K!ShutDown
<1> QED
  BY <1>1, <1>2

LEMMA StepShutdownOK ==
    ASSUME ShutInv, NEW rpm \in K!Speed \cup {None}, NEW low \in BOOLEAN, NEW dt \in Updates
    PROVE  LET next == K!StepShutdown(rpm, low, dt) IN
           /\ next \in [state : ShutStates, timer : Nat, reason : ShutReasons, uptime : Nat]
           /\ shut.state = "Running" /\ next.state = "FuelPumpOn" => next.timer = PumpRun
           /\ shut.state = "FuelPumpOn" => next.timer = K!Less(shut.timer, dt)
                /\ (next.state = "FuelPumpOn" => next.timer # 0)
           /\ shut.state \notin {"Running", "FuelPumpOn"} => next.state # "FuelPumpOn"
           /\ shut.state # "Running" => next.reason = shut.reason
<1> DEFINE S == [state : ShutStates, timer : Nat, reason : ShutReasons, uptime : Nat]
           up == K!Least(shut.uptime + dt, StartTimeout + 1)
           s == [shut EXCEPT !.uptime = up]
<1>1. shut \in S /\ dt \in Nat /\ StartTimeout \in Nat
  BY KeyTimes DEF ShutInv
<1>2. up \in Nat
  BY <1>1 DEF K!Least
<1>3. s \in S /\ s.state = shut.state /\ s.timer = shut.timer /\ s.reason = shut.reason
  BY <1>1, <1>2
<1>4. K!StepShutdown(rpm, low, dt) =
        CASE s.state = "Running" -> K!Watch(s, rpm, low)
          [] s.state = "FuelPumpOn" ->
                [s EXCEPT !.timer = K!Less(s.timer, dt),
                          !.state = IF K!Less(s.timer, dt) = 0 THEN "Coasting" ELSE @]
          [] s.state = "Coasting" -> IF rpm \in K!Stopping \cup {None} THEN [s EXCEPT !.state = "Stopped"] ELSE s
          [] s.state = "Stopped" -> s
  BY DEF K!StepShutdown
<1> HIDE DEF up, s
<1>5. CASE s.state = "Running"
  <2> DEFINE battery == IF low THEN K!ShutDown(s, "LowBattery") ELSE s
  <2>1. battery \in S /\ (battery.state = "FuelPumpOn" => battery.timer = PumpRun)
        /\ (battery.state = "Running" \/ battery.state = "FuelPumpOn")
    BY <1>3, <1>5, ShutDownOK DEF ShutReasons
  <2>2. K!Watch(s, rpm, low) =
          IF s.uptime > StartTimeout /\ rpm \in K!Stopping THEN K!ShutDown(battery, "Timeout") ELSE battery
    BY DEF K!Watch
  <2>3. K!StepShutdown(rpm, low, dt) = K!Watch(s, rpm, low)
    BY <1>4, <1>5
  <2> HIDE DEF battery
  <2>4. /\ K!ShutDown(battery, "Timeout") \in S
        /\ K!ShutDown(battery, "Timeout").state = "FuelPumpOn" => K!ShutDown(battery, "Timeout").timer = PumpRun
    BY <2>1, ShutDownOK DEF ShutReasons
  <2> QED
    BY <1>3, <1>5, <2>1, <2>2, <2>3, <2>4
<1>6. CASE s.state = "FuelPumpOn"
  <2> DEFINE left == K!Less(s.timer, dt)
             then == IF left = 0 THEN "Coasting" ELSE "FuelPumpOn"
  <2>1. left \in Nat /\ then \in ShutStates
    BY <1>1, <1>3 DEF K!Less, ShutStates
  <2>2. K!StepShutdown(rpm, low, dt) = [s EXCEPT !.timer = left, !.state = then]
    BY <1>4, <1>6
  <2>3. then = "FuelPumpOn" => left # 0
    OBVIOUS
  <2> HIDE DEF then
  <2>4. [s EXCEPT !.timer = left] \in S
    BY <1>3, <2>1
  <2>5. [s EXCEPT !.timer = left, !.state = then] \in S
    BY <2>1, <2>4
  <2> QED
    BY <1>3, <1>6, <2>1, <2>2, <2>3, <2>5
<1>7. CASE s.state = "Coasting"
  <2>1. K!StepShutdown(rpm, low, dt) = IF rpm \in K!Stopping \cup {None} THEN [s EXCEPT !.state = "Stopped"] ELSE s
    BY <1>4, <1>7
  <2> QED
    BY <1>3, <1>7, <2>1 DEF ShutStates
<1>8. CASE s.state = "Stopped"
  <2>1. K!StepShutdown(rpm, low, dt) = s
    BY <1>4, <1>8
  <2> QED
    BY <1>3, <1>8, <2>1
<1> QED
  BY <1>3, <1>5, <1>6, <1>7, <1>8 DEF ShutStates

LEMMA ShutStep ==
    ASSUME ShutInv, K!Next \/ UNCHANGED keyVars
    PROVE  ShutInv'
<1>1. /\ shut \in [state : ShutStates, timer : Nat, reason : ShutReasons, uptime : Nat]
      /\ PumpRun \in Nat /\ Updates \subseteq Nat /\ pumped \in 0 .. PumpRun /\ shut_pump \in BOOLEAN
  BY KeyTimes DEF ShutInv
<1>2. ASSUME NEW reason \in {"KeyOff", "EmergencyStop"}, K!Shutdown(reason)
      PROVE  ShutInv'
  <2>1. reason \in ShutReasons
    BY DEF ShutReasons
  <2>2. /\ shut' = K!ShutDown(shut, reason) /\ UNCHANGED shut_pump
        /\ asked' = IF shut.state = "Running" THEN reason ELSE asked
        /\ pumped' = IF shut.state = "Running" THEN 0 ELSE pumped
    BY <1>2 DEF K!Shutdown
  <2> QED
    BY <1>1, <2>1, <2>2, ShutDownOK DEF ShutInv
<1>3. CASE K!ResetShutdown
  <2>1. /\ shut' = [state |-> "Running", timer |-> 0, reason |-> None, uptime |-> 0] /\ asked' = None
        /\ UNCHANGED <<shut_pump, pumped>>
    BY <1>3 DEF K!ResetShutdown
  <2> QED
    BY <1>1, <2>1 DEF ShutInv, ShutStates, ShutReasons
<1>4. ASSUME NEW rpm \in K!Speed \cup {None}, NEW low \in BOOLEAN, NEW dt \in Updates,
             K!UpdateShutdown(rpm, low, dt)
      PROVE  ShutInv'
  <2>1. /\ shut' \in [state : ShutStates, timer : Nat, reason : ShutReasons, uptime : Nat]
        /\ shut.state = "Running" /\ shut'.state = "FuelPumpOn" => shut'.timer = PumpRun
        /\ shut.state = "FuelPumpOn" => shut'.timer = K!Less(shut.timer, dt)
             /\ (shut'.state = "FuelPumpOn" => shut'.timer # 0)
        /\ shut.state \notin {"Running", "FuelPumpOn"} => shut'.state # "FuelPumpOn"
        /\ shut.state # "Running" => shut'.reason = shut.reason
    BY <1>4, StepShutdownOK DEF K!UpdateShutdown
  <2>2. /\ shut_pump' = (shut.state = "FuelPumpOn" /\ shut'.state = "FuelPumpOn")
        /\ asked' = IF shut.state = "Running" THEN shut'.reason ELSE asked
        /\ pumped' = IF shut.state = "Running" THEN 0 ELSE K!Least(pumped + dt, PumpRun)
    BY <1>4 DEF K!UpdateShutdown
  <2>3. pumped' \in 0 .. PumpRun
    BY <1>1, <2>2 DEF K!Least
  <2>4. shut'.state = "FuelPumpOn" => shut'.timer = PumpRun - pumped'
    BY <1>1, <2>1, <2>2 DEF ShutInv, K!Least, K!Less
  <2>5. shut.state = "FuelPumpOn" /\ shut'.state = "FuelPumpOn" => pumped' < PumpRun
    BY <1>1, <2>1, <2>2, <2>3, <2>4
  <2> QED
    BY <2>1, <2>2, <2>3, <2>4, <2>5 DEF ShutInv
<1>5. CASE UNCHANGED <<shut, shut_pump, pumped, asked>>
  BY <1>5 DEF ShutInv
<1> QED
  BY <1>2, <1>3, <1>4, <1>5
     DEF K!Next, K!Start, K!Stop, K!ResetStart, K!UpdateStart, keyVars

LEMMA KeyInit == PartsInit => StartInv /\ ShutInv
<1> SUFFICES ASSUME K!Init PROVE StartInv /\ ShutInv
  BY DEF PartsInit
<1>1. 0 \in 0 .. CrankTimeout /\ 0 \in 0 .. PumpRun
  BY KeyTimes
<1>2. StartInv
  BY <1>1 DEF K!Init, StartInv, StartStates, StartReasons
<1>3. ShutInv
  BY <1>1 DEF K!Init, ShutInv, ShutStates, ShutReasons
<1> QED
  BY <1>2, <1>3

\* Neither the starter nor the pump outlasts its time.
LEMMA KeyOK == StartInv /\ ShutInv => K!TimesAreKept
BY DEF StartInv, ShutInv, K!TimesAreKept, K!StarterSpared, K!PumpRunsOut

----------------------------------------------------------------------------
(* Bootloader.                                                             *)

\* Time is waited in the state Bootloader alone, and the states that return to it keep the timer.
BootInv ==
    /\ boot_timer \in Nat /\ waited \in Nat /\ firmware_size \in Nat
    /\ boot \in {"Bootloader", "Receiving", "Programming"} =>
          waited < BootTimeout /\ boot_timer = BootTimeout - waited
    /\ boot = "Receiving" => firmware_size = received /\ received <= MaxFirmware

LEMMA BootStep ==
    ASSUME BootInv, B!Next \/ UNCHANGED bootVars
    PROVE  BootInv'
<1>1. /\ BootTimeout \in Nat /\ BootTimeout > 0 /\ MaxFirmware \in Nat
      /\ Updates \subseteq Nat /\ Chunks \subseteq Nat
  BY PartsAssumption DEF B!Parameters
<1>2. CASE B!EnterBootloader \/ B!StartUpdate \/ B!CancelUpdate
  BY <1>1, <1>2 DEF BootInv, B!EnterBootloader, B!StartUpdate, B!CancelUpdate
<1>3. CASE B!Verify \/ B!Rollback \/ B!BootApplication \/ B!IncrementBootAttempts
  BY <1>3 DEF BootInv, B!Verify, B!Rollback, B!BootApplication, B!IncrementBootAttempts
<1>4. ASSUME NEW dt \in Updates, B!Update(dt)
      PROVE  BootInv'
  BY <1>1, <1>4 DEF BootInv, B!Update
<1>5. ASSUME NEW size \in Chunks, B!ReceiveFirmware(size)
      PROVE  BootInv'
  BY <1>1, <1>5 DEF BootInv, B!ReceiveFirmware
<1>6. CASE UNCHANGED bootVars
  BY <1>6 DEF BootInv, bootVars
<1> QED
  BY <1>2, <1>3, <1>4, <1>5, <1>6 DEF B!Next

LEMMA BootInit == PartsInit => BootInv
<1> SUFFICES ASSUME B!Init PROVE BootInv
  BY DEF PartsInit
<1> QED
  BY PartsAssumption DEF B!Parameters, B!Init, BootInv

LEMMA BootOK == BootInv => B!UpdatesAreOrderly
BY DEF BootInv, B!UpdatesAreOrderly, B!OwnBytesOnly, B!WaitsItsTime

----------------------------------------------------------------------------
(* Film, taper and rest.                                                   *)

\* A film is a whole amount, and the latest shot brought what was wanted.
FilmInv ==
    /\ film \in [0 .. Ports - 1 -> Nat]
    /\ P!WantedFuelArrives

\* The cycles of the taper are those at running speed since the engine started.
TaperInv ==
    /\ since_start \in -1 .. TaperCycles
    /\ taper \in [active : BOOLEAN, cycles : 0 .. TaperCycles]
    /\ taper.active <=> since_start >= 0 /\ since_start < TaperCycles
    /\ taper.active => taper.cycles = since_start
    /\ factor \in TaperCycles .. CrankingFuel

\* The clock of the pause is the time since fuel came back, until the pause is over.
RestInv ==
    /\ since_cut \in -2 .. RestTime + 1
    /\ rest \in [since : -1 .. RestTime + 1, paused : BOOLEAN]
    /\ P!RestIsWhole
    /\ RestEnabled /\ since_cut >= 0 /\ since_cut <= RestTime => rest.since = since_cut
    /\ since_cut = -2 \/ since_cut > RestTime \/ ~RestEnabled => rest.since = -1

PathInv == FilmInv /\ TaperInv /\ RestInv

LEMMA PathNumbers ==
    /\ Ports \in Nat /\ Pressures \subseteq Nat /\ TaperCycles \in Nat /\ TaperCycles > 0
    /\ CrankingFuel \in Nat /\ CrankingFuel >= TaperCycles
    /\ RestTime \in Nat /\ RestEnabled \in BOOLEAN
    /\ MinPulse \in Nat /\ MaxPulse \in Nat /\ MinPulse <= MaxPulse
BY PartsAssumption DEF P!Parameters

\* A multiple of a whole number by at most the divisor, divided.
LEMMA PartOf ==
    ASSUME NEW all \in Nat, NEW parts \in Nat, parts > 0, NEW c \in 0 .. parts
    PROVE  (all * c) \div parts \in 0 .. all
<1>1. all * c \in Nat /\ all * c <= all * parts
  <2>1. parts - c \in Nat /\ all * (parts - c) \in Nat
    OBVIOUS
  <2>2. all * (parts - c) = all * parts - all * c
    OBVIOUS
  <2>3. all * c \in Nat /\ all * parts \in Nat
    OBVIOUS
  <2> QED
    BY <2>1, <2>2, <2>3
<1> DEFINE q == (all * c) \div parts
<1>2. q \in Int /\ parts * q <= all * c /\ all * c < parts * q + parts
  OBVIOUS
<1>3. q >= 0
  <2> SUFFICES ASSUME q < 0 PROVE FALSE
    BY <1>2
  <2>1. parts * q <= parts * (-1)
    <3>1. -1 - q \in Nat /\ parts * (-1 - q) \in Nat
      BY <1>2
    <3>2. parts * (-1 - q) = parts * (-1) - parts * q
      BY <1>2
    <3> QED
      BY <1>2, <3>1, <3>2
  <2> QED
    BY <1>1, <1>2, <2>1
<1>4. q <= all
  <2> SUFFICES ASSUME q > all PROVE FALSE
    BY <1>2
  <2>1. q - all - 1 \in Nat /\ parts * (q - all - 1) \in Nat
    BY <1>2
  <2>2. parts * (q - all - 1) = parts * q - all * parts - parts
    BY <1>2
  <2> QED
    BY <1>1, <1>2, <2>1, <2>2
<1> QED
  BY <1>2, <1>3, <1>4

LEMMA TaperedBounds ==
    ASSUME NEW c \in 0 .. TaperCycles
    PROVE  P!Tapered(c) \in TaperCycles .. CrankingFuel
<1> DEFINE all == CrankingFuel - TaperCycles
<1>1. all \in Nat /\ TaperCycles \in Nat /\ TaperCycles > 0 /\ CrankingFuel \in Nat
  BY PathNumbers
<1>2. (all * c) \div TaperCycles \in 0 .. all
  BY <1>1, PartOf
<1>3. P!Tapered(c) = CrankingFuel - (all * c) \div TaperCycles
  BY DEF P!Tapered, P!Neutral
<1> DEFINE share == (all * c) \div TaperCycles
<1>4. share \in 0 .. all /\ P!Tapered(c) = CrankingFuel - share
  BY <1>2, <1>3
<1> HIDE DEF share
<1> QED
  BY <1>1, <1>4

LEMMA MassesAreWhole == P!Masses \subseteq Nat \ {0}
BY PathNumbers DEF P!Masses, P!RequiredMass, P!AirMass

LEMMA FilmStep ==
    ASSUME FilmInv, P!Next \/ UNCHANGED pathVars
    PROVE  FilmInv'
<1>1. film \in [0 .. Ports - 1 -> Nat] /\ DOMAIN film = 0 .. Ports - 1 /\ Ports \in Nat
  BY PathNumbers DEF FilmInv
<1>2. ASSUME NEW c \in 0 .. Ports, NEW wanted \in P!Masses, NEW cold \in BOOLEAN, NEW dt \in {"short", "long"},
             NEW vbatt \in {"low", "unknown"}, P!Inject(c, wanted, cold, dt, vbatt)
      PROVE  FilmInv'
  <2>1. wanted \in Nat
    BY MassesAreWhole
  <2>2. CASE c \in DOMAIN film
    <3> DEFINE f == film[c]
               gone == P!Evaporated(f, cold, dt)
               most == P!Greatest(wanted - gone, 0)
               mass == (IF cold THEN 2 ELSE 1) * most
               stays == P!OnWall(cold, mass)
    <3>1. f \in Nat
      BY <1>1, <2>2
    <3>2. gone \in 0 .. f
      BY <3>1 DEF P!Evaporated
    <3>3. most \in Nat /\ wanted - gone <= most /\ (most > wanted - gone => most = 0)
      BY <2>1, <3>1, <3>2 DEF P!Greatest
    <3> HIDE DEF f, gone, most
    <3>4. mass = IF cold THEN 2 * most ELSE most
      BY <3>3
    <3>5. stays = IF cold THEN most ELSE 0
      BY <3>3, <3>4 DEF P!OnWall
    <3>6. P!Compensate(f, wanted, cold, dt) = [injected |-> mass, film |-> f - gone + stays]
      BY DEF P!Compensate, gone, most
    <3> HIDE DEF mass, stays
    <3> DEFINE after == f - gone + stays
    <3>7. after \in Nat /\ mass \in Nat /\ after = f - gone + stays
      BY <3>1, <3>2, <3>3, <3>4, <3>5
    <3> DEFINE done == P!Compensate(film[c], wanted, cold, dt)
    <3>8. done.injected = mass /\ done.film = after
      BY <3>6 DEF f
    <3>9. /\ film' = [film EXCEPT ![c] = done.film]
          /\ shot' = [wanted |-> wanted, injected |-> done.injected, pulse |-> done.injected + P!Deadtime(vbatt),
                      reaches |-> done.injected - (done.film - film[c])]
      BY <1>2, <2>2 DEF P!Inject
    <3>10. film[c] = f
      BY DEF f
    <3> HIDE DEF done, after
    <3>11. /\ film' = [film EXCEPT ![c] = after]
           /\ shot'.wanted = wanted /\ shot'.injected = mass /\ shot'.reaches = mass - (after - f)
      BY <3>8, <3>9, <3>10
    <3>12. mass - (after - f) = most + gone
      BY <3>1, <3>2, <3>3, <3>4, <3>5, <3>7
    <3>13. most + gone >= wanted /\ (most + gone > wanted => mass = 0)
      BY <2>1, <3>1, <3>2, <3>3, <3>4
    <3>14. film' \in [0 .. Ports - 1 -> Nat]
      BY <1>1, <3>7, <3>11
    <3> QED
      BY <3>11, <3>12, <3>13, <3>14 DEF FilmInv, P!WantedFuelArrives
  <2>3. CASE c \notin DOMAIN film
    <3>1. film' = film /\ shot'.wanted = wanted /\ shot'.reaches = wanted - 0
      BY <1>2, <2>3 DEF P!Inject
    <3> QED
      BY <1>1, <2>1, <3>1 DEF FilmInv, P!WantedFuelArrives
  <2> QED
    BY <2>2, <2>3
<1>3. CASE P!ResetFilms
  BY <1>1, <1>3 DEF P!ResetFilms, FilmInv, P!WantedFuelArrives
<1>4. CASE UNCHANGED <<film, shot>>
  BY <1>4 DEF FilmInv, P!WantedFuelArrives
<1> QED
  BY <1>2, <1>3, <1>4 DEF P!Next, P!Fuel, P!StartTaper, P!UpdateTaper, P!UpdateRest, pathVars

LEMMA TaperStep ==
    ASSUME TaperInv, P!Next \/ UNCHANGED pathVars
    PROVE  TaperInv'
<1>1. /\ TaperCycles \in Nat /\ TaperCycles > 0 /\ CrankingFuel \in Nat /\ CrankingFuel >= TaperCycles
      /\ since_start \in -1 .. TaperCycles
      /\ taper \in [active : BOOLEAN, cycles : 0 .. TaperCycles]
      /\ taper.active <=> since_start >= 0 /\ since_start < TaperCycles
      /\ taper.active => taper.cycles = since_start
      /\ factor \in TaperCycles .. CrankingFuel
  BY PathNumbers DEF TaperInv
<1>2. CASE P!StartTaper
  BY <1>1, <1>2 DEF P!StartTaper, TaperInv
<1>3. ASSUME NEW speed \in {"stopped", "cranking", "running"}, P!UpdateTaper(speed)
      PROVE  TaperInv'
  <2> DEFINE cycles == taper.cycles + 1
  <2>1. since_start' = CASE speed = "stopped" -> -1 [] speed = "cranking" -> since_start
                [] speed = "running" -> IF since_start < 0 THEN -1 ELSE P!Least(since_start + 1, TaperCycles)
    BY <1>3 DEF P!UpdateTaper
  <2>2. CASE ~taper.active
    <3>1. factor' = TaperCycles /\ taper' = taper
      BY <1>3, <2>2 DEF P!UpdateTaper, P!Neutral
    <3>2. since_start' \in -1 .. TaperCycles /\ ~(since_start' >= 0 /\ since_start' < TaperCycles)
      BY <1>1, <2>1, <2>2 DEF P!Least
    <3> QED
      BY <1>1, <2>2, <3>1, <3>2 DEF TaperInv
  <2>3. CASE taper.active /\ speed = "stopped"
    <3>1. factor' = TaperCycles /\ taper' = [active |-> FALSE, cycles |-> 0] /\ since_start' = -1
      BY <1>3, <2>1, <2>3 DEF P!UpdateTaper, P!Neutral
    <3> QED
      BY <1>1, <3>1 DEF TaperInv
  <2>4. CASE taper.active /\ speed = "cranking"
    <3>1. factor' = CrankingFuel /\ taper' = taper /\ since_start' = since_start
      BY <1>3, <2>1, <2>4 DEF P!UpdateTaper
    <3> QED
      BY <1>1, <3>1 DEF TaperInv
  <2>5. CASE taper.active /\ speed = "running"
    <3>1. /\ taper' = [active |-> cycles < TaperCycles, cycles |-> cycles]
          /\ factor' = IF cycles < TaperCycles THEN P!Tapered(cycles) ELSE TaperCycles
      BY <1>3, <2>5 DEF P!UpdateTaper, P!Neutral
    <3>2. cycles \in 0 .. TaperCycles /\ cycles = since_start + 1 /\ since_start' = cycles
      BY <1>1, <2>1, <2>5 DEF P!Least
    <3>3. factor' \in TaperCycles .. CrankingFuel
      BY <1>1, <3>1, <3>2, TaperedBounds
    <3> HIDE DEF cycles
    <3>4. (cycles < TaperCycles) \in BOOLEAN
      OBVIOUS
    <3> DEFINE goesOn == cycles < TaperCycles
    <3>5. taper' = [active |-> goesOn, cycles |-> cycles] /\ (goesOn <=> cycles < TaperCycles) /\ goesOn \in BOOLEAN
      BY <3>1, <3>4
    <3> HIDE DEF goesOn
    <3>6. taper' \in [active : BOOLEAN, cycles : 0 .. TaperCycles] /\ (taper'.active <=> goesOn) /\ taper'.cycles = cycles
      BY <3>2, <3>5
    <3>7. taper'.active <=> since_start' >= 0 /\ since_start' < TaperCycles
      BY <1>1, <3>2, <3>5, <3>6
    <3> QED
      BY <1>1, <3>2, <3>3, <3>6, <3>7 DEF TaperInv
  <2> QED
    BY <1>3, <2>2, <2>3, <2>4, <2>5
<1>4. CASE UNCHANGED <<taper, factor, since_start>>
  BY <1>4 DEF TaperInv
<1> QED
  BY <1>2, <1>3, <1>4 DEF P!Next, P!Fuel, P!ResetFilms, P!UpdateRest, pathVars

LEMMA RestStep ==
    ASSUME RestInv, P!Next \/ UNCHANGED pathVars
    PROVE  RestInv'
<1>1. /\ RestTime \in Nat /\ RestEnabled \in BOOLEAN
      /\ since_cut \in -2 .. RestTime + 1
      /\ rest \in [since : -1 .. RestTime + 1, paused : BOOLEAN]
      /\ rest.paused <=> since_cut = -1 \/ (RestEnabled /\ since_cut >= 0 /\ since_cut <= RestTime)
      /\ RestEnabled /\ since_cut >= 0 /\ since_cut <= RestTime => rest.since = since_cut
      /\ since_cut = -2 \/ since_cut > RestTime \/ ~RestEnabled => rest.since = -1
  BY PathNumbers DEF RestInv, P!RestIsWhole
<1>2. ASSUME NEW cut \in BOOLEAN, NEW gap \in 1 .. 2, P!UpdateRest(cut, gap)
      PROVE  RestInv'
  <2> DEFINE exits == since_cut = -1 /\ ~cut
             now2 == IF exits /\ RestEnabled THEN 0
                     ELSE IF rest.since < 0 THEN -1 ELSE P!Least(rest.since + gap, RestTime + 1)
             ended == now2 < 0 \/ now2 > RestTime
  <2>1. rest' = IF cut THEN [since |-> now2, paused |-> TRUE]
                ELSE IF ~RestEnabled THEN [since |-> now2, paused |-> FALSE]
                ELSE [since |-> IF ended THEN -1 ELSE now2, paused |-> ~ended]
    BY <1>2 DEF P!UpdateRest
  <2>2. since_cut' = IF cut THEN -1 ELSE IF since_cut = -1 THEN 0
                     ELSE IF since_cut = -2 THEN -2 ELSE P!Least(since_cut + gap, RestTime + 1)
    BY <1>2 DEF P!UpdateRest
  <2>3. now2 \in -1 .. RestTime + 1 /\ (~RestEnabled => now2 = -1)
    BY <1>1 DEF P!Least
  <2>4. since_cut' \in -2 .. RestTime + 1
    BY <1>1, <2>2 DEF P!Least
  <2>5. CASE cut
    <3>1. rest' = [since |-> now2, paused |-> TRUE] /\ since_cut' = -1
      BY <2>1, <2>2, <2>5
    <3> HIDE DEF now2
    <3> QED
      BY <1>1, <2>3, <2>4, <3>1 DEF RestInv, P!RestIsWhole
  <2>6. CASE ~cut /\ ~RestEnabled
    <3>1. rest' = [since |-> -1, paused |-> FALSE]
      BY <2>1, <2>3, <2>6
    <3>2. since_cut' # -1
      BY <1>1, <2>2, <2>6 DEF P!Least
    <3> QED
      BY <1>1, <2>4, <2>6, <3>1, <3>2 DEF RestInv, P!RestIsWhole
  <2>7. CASE ~cut /\ RestEnabled
    <3>1. /\ since_cut' >= 0 /\ since_cut' <= RestTime => now2 = since_cut'
          /\ since_cut' = -2 \/ since_cut' > RestTime => ended
          /\ since_cut' # -1
      BY <1>1, <2>2, <2>7 DEF P!Least
    <3>2. rest' = [since |-> IF ended THEN -1 ELSE now2, paused |-> ~ended]
      BY <2>1, <2>7
    <3>3. ended <=> now2 < 0 \/ now2 > RestTime
      OBVIOUS
    <3> HIDE DEF now2, ended
    <3>4. rest' \in [since : -1 .. RestTime + 1, paused : BOOLEAN]
      BY <1>1, <2>3, <3>2, <3>3
    <3>5. rest'.since = (IF ended THEN -1 ELSE now2) /\ (rest'.paused <=> ~ended)
      BY <3>2
    <3>6. ~ended <=> since_cut' >= 0 /\ since_cut' <= RestTime
      BY <1>1, <2>3, <2>4, <3>1, <3>3
    <3> QED
      BY <1>1, <2>4, <2>7, <3>1, <3>4, <3>5, <3>6 DEF RestInv, P!RestIsWhole
  <2> QED
    BY <2>5, <2>6, <2>7
<1>3. CASE UNCHANGED <<rest, since_cut>>
  BY <1>3 DEF RestInv, P!RestIsWhole
<1> QED
  BY <1>2, <1>3 DEF P!Next, P!Fuel, P!ResetFilms, P!StartTaper, P!UpdateTaper, pathVars

LEMMA PathInit == PartsInit => PathInv
<1> SUFFICES ASSUME P!Init PROVE PathInv
  BY DEF PartsInit
<1>1. FilmInv
  BY PathNumbers DEF P!Init, P!NoShot, FilmInv, P!WantedFuelArrives
<1>2. TaperInv
  BY PathNumbers DEF P!Init, P!Neutral, TaperInv
<1>3. RestInv
  BY PathNumbers DEF P!Init, RestInv, P!RestIsWhole
<1> QED
  BY <1>1, <1>2, <1>3 DEF PathInv

\* The corrections of a pulse hold no state: their conditions are facts about numbers.
LEMMA Corrections == P!CorrectionsAreSound
<1> DEFINE width == MaxPulse - MinPulse
<1>1. width \in Nat /\ MinPulse \in Nat /\ MaxPulse \in Nat
  BY PathNumbers
<1>2. ASSUME NEW p \in 0 .. MaxPulse + 2
      PROVE  P!CorrectPulse(p) >= p * width
  <2>1. p \in Nat /\ p * width \in Nat
    BY <1>1
  <2>2. CASE p < MinPulse
    <3>1. P!CorrectPulse(p) = 2 * p * width
      BY <2>2 DEF P!CorrectPulse
    <3>2. 2 * p * width = p * width + p * width
      BY <1>1, <2>1
    <3> QED
      BY <2>1, <3>1, <3>2
  <2>3. CASE p > MaxPulse
    <3>1. P!CorrectPulse(p) = p * width
      BY <1>1, <2>1, <2>3, PathNumbers DEF P!CorrectPulse
    <3> QED
      BY <2>1, <3>1
  <2>4. CASE p >= MinPulse /\ p <= MaxPulse
    <3> DEFINE rest1 == MaxPulse - p
    <3>1. P!CorrectPulse(p) = p * (2 * width - (p - MinPulse))
      BY <1>1, <2>1, <2>4 DEF P!CorrectPulse
    <3>2. 2 * width - (p - MinPulse) = width + rest1 /\ rest1 \in Nat
      BY <1>1, <2>1, <2>4
    <3>3. p * (width + rest1) = p * width + p * rest1 /\ p * rest1 \in Nat
      BY <1>1, <2>1, <3>2
    <3> HIDE DEF width, rest1
    <3> QED
      BY <2>1, <3>1, <3>2, <3>3
  <2> QED
    BY <1>1, <2>1, <2>2, <2>3, <2>4
<1>3. P!CorrectPulse(MaxPulse) = MaxPulse * width
  <2>1. P!CorrectPulse(MaxPulse) = MaxPulse * (2 * width - (MaxPulse - MinPulse))
    BY PathNumbers DEF P!CorrectPulse
  <2>2. 2 * width - (MaxPulse - MinPulse) = width
    BY <1>1
  <2> QED
    BY <2>1, <2>2
<1>4. ASSUME NEW v \in 0 .. 6, NEW r \in 1 .. 3
      PROVE  /\ P!MafFuel(v, 10 * r, 4) >= P!MafFuel(v, 10 * (r + 1), 4)
             /\ v <= 1 => P!MafFuel(v, 10 * r, 4) = 0
  <2>1. r = 1 \/ r = 2 \/ r = 3
    OBVIOUS
  <2>2. v = 0 \/ v = 1 \/ v = 2 \/ v = 3 \/ v = 4 \/ v = 5 \/ v = 6
    OBVIOUS
  <2> QED
    BY <2>1, <2>2 DEF P!MafFuel, P!AirFlow
<1>5. ASSUME NEW n \in 1 .. 2
      PROVE  P!BatchTiming(FALSE, n, 30, 90) = 30 /\ P!BatchTiming(TRUE, n, 30, 90) \in {30, 120}
  BY DEF P!BatchTiming
<1> QED
  BY <1>2, <1>3, <1>4, <1>5 DEF P!CorrectionsAreSound

LEMMA PathOK == PathInv => P!FuelIsAsMeant
<1> SUFFICES ASSUME PathInv PROVE P!FuelIsAsMeant
  OBVIOUS
<1>1. P!TaperIsPaidOut
  <2>1. /\ since_start \in -1 .. TaperCycles
        /\ taper \in [active : BOOLEAN, cycles : 0 .. TaperCycles]
        /\ taper.active <=> since_start >= 0 /\ since_start < TaperCycles
        /\ factor \in TaperCycles .. CrankingFuel
    BY DEF PathInv, TaperInv
  <2>2. P!Tapered(taper.cycles) \in TaperCycles .. CrankingFuel
    BY <2>1, TaperedBounds
  <2>3. TaperCycles \in TaperCycles .. CrankingFuel
    BY PathNumbers
  <2> QED
    BY <2>1, <2>2, <2>3 DEF P!TaperIsPaidOut, P!CurrentFactor, P!Neutral
<1> QED
  BY <1>1, Corrections DEF PathInv, FilmInv, RestInv, P!FuelIsAsMeant

\* Starter and pump keep their times, the bootloader waits its time and counts the bytes of one
\* update only, what is owed in fuel, taper and rest is paid out in full, and after the last cycle
\* with fuel cut the closed loop corrects nothing until the pause has gone by
\* (ClosedLoopController::update).
THEOREM TimesKept == PartsSpec => []TimesAreKept
<1> DEFINE Inv == StartInv /\ ShutInv /\ BootInv /\ PathInv
<1>1. PartsInit => Inv
  BY KeyInit, BootInit, PathInit
<1>2. Inv /\ [PartsNext]_allVars => Inv'
  BY StartStep, ShutStep, BootStep, FilmStep, TaperStep, RestStep, PartsAreApart DEF PathInv
<1>3. FuelInv => F!PauseIsKept
  BY DEF FuelInv, PauseInv, F!PauseIsKept
<1>4. Inv /\ FuelInv => TimesAreKept
  BY <1>3, KeyOK, BootOK, PathOK DEF TimesAreKept
<1> QED
  BY <1>1, <1>2, <1>4, FuellingInvariance, PTL DEF PartsSpec

----------------------------------------------------------------------------
(* Relays of the fuel loop: the pump.                                      *)

PumpInv ==
    /\ pump \in [state : {"Off", "Priming", "Running"}, left : Nat, timer : Nat]
    /\ quiet \in 0 .. ShutdownDelay
    /\ pump.state = "Running" => pump.timer <= quiet \/ quiet = ShutdownDelay

LEMMA PumpStep ==
    ASSUME PumpInv, [PartsNext]_allVars
    PROVE  /\ PumpInv'
           /\ [pump.state = "Running" /\ pump'.state = "Off" => quiet' >= ShutdownDelay]_outputsVars
<1>1. ShutdownDelay \in Nat /\ Lengths \subseteq Nat
  BY PartsAssumption DEF L!Parameters
<1>2. ASSUME NEW dt \in Lengths, quiet' = L!Least(quiet + dt, ShutdownDelay)
      PROVE  quiet' \in 0 .. ShutdownDelay /\ (quiet' = quiet + dt \/ quiet' = ShutdownDelay)
  BY <1>1, <1>2 DEF L!Least, PumpInv
<1>3. ASSUME NEW dt \in Lengths, pump' = L!UpdatePump(FALSE, dt), quiet' = L!Least(quiet + dt, ShutdownDelay)
      PROVE  /\ PumpInv'
             /\ pump.state = "Running" /\ pump'.state = "Off" => quiet' >= ShutdownDelay
  <2>1. dt \in Nat /\ pump.timer \in Nat /\ pump.left \in Nat /\ quiet \in Nat
    BY <1>1 DEF PumpInv
  <2>2. CASE pump.state = "Off" \/ pump.state = "Priming"
    BY <1>1, <1>2, <1>3, <2>1, <2>2 DEF PumpInv, L!UpdatePump, L!Off
  <2>3. CASE pump.state = "Running" /\ pump.timer + dt >= ShutdownDelay
    BY <1>1, <1>2, <1>3, <2>1, <2>3 DEF PumpInv, L!UpdatePump, L!Off
  <2>4. CASE pump.state = "Running" /\ pump.timer + dt < ShutdownDelay
    BY <1>1, <1>2, <1>3, <2>1, <2>4 DEF PumpInv, L!UpdatePump
  <2> QED
    BY <2>1, <2>2, <2>3, <2>4, <1>1 DEF PumpInv
<1>4. ASSUME pump' = L!UpdatePump(TRUE, 0), quiet' = 0
      PROVE  PumpInv' /\ (pump.state = "Running" => pump'.state = "Running")
  <2>1. pump.left \in Nat
    BY DEF PumpInv
  <2> QED
    BY <1>1, <1>4, <2>1 DEF PumpInv, L!UpdatePump, L!Off, L!Running
<1>5. ASSUME NEW dt \in Lengths, L!Skip(dt)
      PROVE  PumpInv' /\ UNCHANGED pump
  BY <1>1, <1>2, <1>5 DEF L!Skip, PumpInv
<1>6. ASSUME UNCHANGED <<pump, quiet>>
      PROVE  PumpInv'
  BY <1>6 DEF PumpInv
<1>7. CASE L!Next
  <2>1. CASE L!Pass
    BY <2>1, <1>3 DEF L!Pass, L!Actuate
  <2>2. CASE L!Tooth
    BY <2>2, <1>4 DEF L!Tooth
  <2>3. CASE L!Turn \/ L!Stall
    BY <2>3, <1>6 DEF L!Turn, L!Stall
  <2>4. CASE \E dt \in Lengths : L!Skip(dt)
    BY <2>4, <1>5
  <2>5. CASE \E speed \in L!Speed, error \in -1 .. 1 : L!ReferenceTooth(speed, error)
    BY <2>5, <1>4 DEF L!ReferenceTooth
  <2> QED
    BY <1>7, <2>1, <2>2, <2>3, <2>4, <2>5 DEF L!Next
<1>8. CASE UNCHANGED outputsVars
  BY <1>6, <1>8 DEF outputsVars
<1> QED
  BY <1>7, <1>8, PartsAreApart

\* FuelPumpController: a pump that runs outlasts every pause of the teeth shorter than the
\* shutdown delay.
THEOREM PumpKeepsRunning == PartsSpec => PumpOutlastsPauses
<1>1. PartsInit => PumpInv
  <2> SUFFICES ASSUME L!Init
               PROVE  PumpInv
    BY DEF PartsInit
  <2> QED
    BY PartsAssumption DEF L!Init, L!Parameters, PumpInv
<1>2. PumpInv /\ [PartsNext]_allVars
      => /\ PumpInv'
         /\ [pump.state = "Running" /\ pump'.state = "Off" => quiet' >= ShutdownDelay]_L!vars
  BY PumpStep DEF outputsVars, L!vars
<1> QED
  BY <1>1, <1>2, PTL DEF PartsSpec, PumpOutlastsPauses, L!PumpOutlastsPauses

----------------------------------------------------------------------------
(* Protection: the conditions of the limp mode.                            *)

LimpInv ==
    /\ conditions \in [1 .. L!Slots -> L!Condition \cup {"None"}]
    /\ seen \in [L!Condition -> L!Level]
    /\ limp \in L!Level
    /\ L!ConditionsAreCurrent

\* What has been found so far, of the conditions of done: each that is not normal, once.
Holds(found, done, levels) ==
    /\ found \in Seq(L!Condition)
    /\ {found[i] : i \in 1 .. Len(found)} = {c \in done : levels[c] # "Normal"}
    /\ \A i, j \in 1 .. Len(found) : i < j => found[i] # found[j]

LEMMA AddOne ==
    ASSUME NEW levels, NEW found, NEW done, NEW c \in L!Condition, c \notin done,
           Holds(found, done, levels)
    PROVE  LET next == IF levels[c] = "Normal" THEN found ELSE Append(found, c)
           IN /\ Holds(next, done \cup {c}, levels)
              /\ \A k \in Nat : Len(found) \in 0 .. k => Len(next) \in 0 .. k + 1
<1>1. CASE levels[c] = "Normal"
  BY <1>1 DEF Holds
<1>2. CASE levels[c] # "Normal"
  <2> DEFINE next == Append(found, c)
  <2>1. /\ Len(found) \in Nat
        /\ next \in Seq(L!Condition) /\ Len(next) = Len(found) + 1
        /\ \A i \in 1 .. Len(found) : next[i] = found[i]
        /\ next[Len(found) + 1] = c
    BY DEF Holds
  <2> HIDE DEF next
  <2>2. {next[i] : i \in 1 .. Len(next)} = {found[i] : i \in 1 .. Len(found)} \cup {c}
    <3>1. 1 .. Len(next) = (1 .. Len(found)) \cup {Len(found) + 1}
      BY <2>1
    <3> QED
      BY <2>1, <3>1
  <2>3. c \notin {found[i] : i \in 1 .. Len(found)}
    BY DEF Holds
  <2>4. \A i, j \in 1 .. Len(next) : i < j => next[i] # next[j]
    <3> SUFFICES ASSUME NEW i \in 1 .. Len(next), NEW j \in 1 .. Len(next), i < j
                 PROVE  next[i] # next[j]
      OBVIOUS
    <3>1. i \in 1 .. Len(found)
      BY <2>1
    <3>2. CASE j \in 1 .. Len(found)
      BY <2>1, <3>1, <3>2 DEF Holds
    <3>3. CASE j = Len(found) + 1
      BY <2>1, <2>3, <3>1, <3>3
    <3> QED
      BY <2>1, <3>2, <3>3
  <2>5. {x \in done \cup {c} : levels[x] # "Normal"} = {x \in done : levels[x] # "Normal"} \cup {c}
    BY <1>2
  <2>6. Holds(next, done \cup {c}, levels)
    BY <2>1, <2>2, <2>4, <2>5 DEF Holds
  <2> QED
    BY <1>2, <2>1, <2>6 DEF next
<1> QED
  BY <1>1, <1>2

LEMMA AllAreFound ==
    ASSUME NEW levels
    PROVE  Holds(L!Found(levels), L!Condition, levels) /\ Len(L!Found(levels)) \in 0 .. 4
<1> DEFINE Put(found, c) == IF levels[c] = "Normal" THEN found ELSE Append(found, c)
           s1 == Put(<<>>, "Overheat")
           s2 == Put(s1, "LowOilPressure")
           s3 == Put(s2, "OverheatIat")
           s4 == Put(s3, "LowBattery")
<1>1. Holds(<<>>, {}, levels) /\ Len(<<>>) \in 0 .. 0
  BY DEF Holds
<1>2. /\ {"Overheat", "LowOilPressure", "OverheatIat", "LowBattery"} = L!Condition
      /\ {} \cup {"Overheat"} = {"Overheat"}
      /\ {"Overheat"} \cup {"LowOilPressure"} = {"Overheat", "LowOilPressure"}
      /\ {"Overheat", "LowOilPressure"} \cup {"OverheatIat"} = {"Overheat", "LowOilPressure", "OverheatIat"}
      /\ {"Overheat", "LowOilPressure", "OverheatIat"} \cup {"LowBattery"} = L!Condition
      /\ 0 + 1 = 1 /\ 1 + 1 = 2 /\ 2 + 1 = 3 /\ 3 + 1 = 4
  BY DEF L!Condition
<1>3. Holds(s1, {"Overheat"}, levels) /\ Len(s1) \in 0 .. 1
  <2>1. "Overheat" \in L!Condition /\ "Overheat" \notin {}
    BY DEF L!Condition
  <2>2. /\ Holds(s1, {} \cup {"Overheat"}, levels)
        /\ \A k \in Nat : Len(<<>>) \in 0 .. k => Len(s1) \in 0 .. k + 1
    BY <1>1, <2>1, AddOne
  <2> HIDE DEF s1
  <2>3. Holds(s1, {"Overheat"}, levels)
    BY <1>2, <2>2
  <2>4. Len(s1) \in 0 .. 0 + 1
    BY <1>1, <2>2
  <2> QED
    BY <1>2, <2>3, <2>4
<1> HIDE DEF s1
<1>4. Holds(s2, {"Overheat", "LowOilPressure"}, levels) /\ Len(s2) \in 0 .. 2
  <2>1. "LowOilPressure" \in L!Condition /\ "LowOilPressure" \notin {"Overheat"}
    BY DEF L!Condition
  <2>2. /\ Holds(s2, {"Overheat"} \cup {"LowOilPressure"}, levels)
        /\ \A k \in Nat : Len(s1) \in 0 .. k => Len(s2) \in 0 .. k + 1
    BY <1>3, <2>1, AddOne
  <2> HIDE DEF s2
  <2>3. Holds(s2, {"Overheat", "LowOilPressure"}, levels)
    BY <1>2, <2>2
  <2>4. Len(s2) \in 0 .. 1 + 1
    BY <1>3, <2>2
  <2> QED
    BY <1>2, <2>3, <2>4
<1> HIDE DEF s2
<1>5. Holds(s3, {"Overheat", "LowOilPressure", "OverheatIat"}, levels) /\ Len(s3) \in 0 .. 3
  <2>1. "OverheatIat" \in L!Condition /\ "OverheatIat" \notin {"Overheat", "LowOilPressure"}
    BY DEF L!Condition
  <2>2. /\ Holds(s3, {"Overheat", "LowOilPressure"} \cup {"OverheatIat"}, levels)
        /\ \A k \in Nat : Len(s2) \in 0 .. k => Len(s3) \in 0 .. k + 1
    BY <1>4, <2>1, AddOne
  <2> HIDE DEF s3
  <2>3. Holds(s3, {"Overheat", "LowOilPressure", "OverheatIat"}, levels)
    BY <1>2, <2>2
  <2>4. Len(s3) \in 0 .. 2 + 1
    BY <1>4, <2>2
  <2> QED
    BY <1>2, <2>3, <2>4
<1> HIDE DEF s3
<1>6. Holds(s4, L!Condition, levels) /\ Len(s4) \in 0 .. 4
  <2>1. "LowBattery" \in L!Condition /\ "LowBattery" \notin {"Overheat", "LowOilPressure", "OverheatIat"}
    BY DEF L!Condition
  <2>2. /\ Holds(s4, {"Overheat", "LowOilPressure", "OverheatIat"} \cup {"LowBattery"}, levels)
        /\ \A k \in Nat : Len(s3) \in 0 .. k => Len(s4) \in 0 .. k + 1
    BY <1>5, <2>1, AddOne
  <2> HIDE DEF s4
  <2>3. Holds(s4, L!Condition, levels)
    BY <1>2, <2>2
  <2>4. Len(s4) \in 0 .. 3 + 1
    BY <1>5, <2>2
  <2> QED
    BY <1>2, <2>3, <2>4
<1>7. L!Found(levels) = s4
  BY DEF L!Found, s1, s2, s3
<1> HIDE DEF s4
<1> QED
  BY <1>2, <1>6, <1>7

\* The limp state is normal exactly when every level is.
LEMMA WorstIsNormal ==
    ASSUME NEW levels \in [L!Condition -> L!Level]
    PROVE  /\ L!Worst(L!Range(levels)) \in L!Level
           /\ L!Worst(L!Range(levels)) = "Normal" <=> \A c \in L!Condition : levels[c] = "Normal"
<1> DEFINE all == L!Range(levels)
           limpest == L!Worst(all)
<1>1. all \subseteq L!Level /\ all = {levels[c] : c \in L!Condition}
  BY DEF L!Range
<1> HIDE DEF all
<1>2. \E l \in all \cup {"Normal"} : \A k \in all : L!Rank(k) <= L!Rank(l)
  <2>1. CASE "Emergency" \in all
    BY <1>1, <2>1 DEF L!Level, L!Rank
  <2>2. CASE "Emergency" \notin all /\ "Critical" \in all
    BY <1>1, <2>2 DEF L!Level, L!Rank
  <2>3. CASE "Emergency" \notin all /\ "Critical" \notin all /\ "Warning" \in all
    BY <1>1, <2>3 DEF L!Level, L!Rank
  <2>4. CASE all \subseteq {"Normal"}
    BY <2>4 DEF L!Rank
  <2> QED
    BY <1>1, <2>1, <2>2, <2>3, <2>4 DEF L!Level
<1>3. limpest \in all \cup {"Normal"} /\ \A k \in all : L!Rank(k) <= L!Rank(limpest)
  BY <1>2 DEF L!Worst
<1> HIDE DEF limpest
<1>4. limpest = "Normal" <=> all \subseteq {"Normal"}
  BY <1>1, <1>3 DEF L!Level, L!Rank
<1>5. limpest \in L!Level
  BY <1>1, <1>3 DEF L!Level
<1> QED
  BY <1>1, <1>4, <1>5 DEF limpest, all

LEMMA SlotsOK ==
    ASSUME NEW levels \in [L!Condition -> L!Level],
           conditions' = L!UpdateSlots(levels), limp' = L!Worst(L!Range(levels)), seen' = levels
    PROVE  LimpInv'
<1> DEFINE found == L!Found(levels)
           n == Len(found)
<1>1. Holds(found, L!Condition, levels) /\ n \in 0 .. 4
  BY AllAreFound
<1>2. conditions' = [i \in 1 .. 5 |-> IF i <= n THEN found[i] ELSE "None"]
  BY DEF L!UpdateSlots, L!Slots, L!NoCondition
<1> HIDE DEF found
<1>3. \A i \in 1 .. n : found[i] \in L!Condition
  BY <1>1 DEF Holds
<1>4. "None" \notin L!Condition
  BY DEF L!Condition
<1> HIDE DEF n
<1>5. conditions' \in [1 .. 5 -> L!Condition \cup {"None"}]
  BY <1>1, <1>2, <1>3
<1>6. {conditions'[i] : i \in 1 .. 5} \ {"None"} = {found[i] : i \in 1 .. n}
  BY <1>1, <1>2, <1>3, <1>4
<1>7. {found[i] : i \in 1 .. n} = {c \in L!Condition : levels[c] # "Normal"}
  BY <1>1 DEF Holds, n
<1>8. \A i, j \in 1 .. 5 : i < j /\ conditions'[j] # "None" => conditions'[i] \notin {conditions'[j], "None"}
  <2> SUFFICES ASSUME NEW i \in 1 .. 5, NEW j \in 1 .. 5, i < j, conditions'[j] # "None"
               PROVE  conditions'[i] \notin {conditions'[j], "None"}
    OBVIOUS
  <2>1. i \in 1 .. n /\ j \in 1 .. n /\ conditions'[i] = found[i] /\ conditions'[j] = found[j]
    BY <1>1, <1>2
  <2>2. found[i] # found[j]
    BY <1>1, <2>1 DEF Holds, n
  <2> QED
    BY <1>3, <1>4, <2>1, <2>2
<1>9. limp' \in L!Level /\ (limp' = "Normal" <=> conditions' = [i \in 1 .. 5 |-> "None"])
  <2>1. limp' = "Normal" <=> {c \in L!Condition : levels[c] # "Normal"} = {}
    BY WorstIsNormal
  <2>2. conditions' = [i \in 1 .. 5 |-> "None"] <=> {conditions'[i] : i \in 1 .. 5} \ {"None"} = {}
    BY <1>5
  <2> QED
    BY <1>6, <1>7, <2>1, <2>2, WorstIsNormal
<1> QED
  BY <1>5, <1>6, <1>7, <1>8, <1>9 DEF LimpInv, L!ConditionsAreCurrent, L!Slots, L!NoCondition, L!Empty

LEMMA LimpStep == LimpInv /\ [PartsNext]_allVars => LimpInv'
<1> SUFFICES ASSUME LimpInv, [PartsNext]_allVars
             PROVE  LimpInv'
  OBVIOUS
<1>1. L!Readings \subseteq [L!Condition -> L!Level]
  BY DEF L!Readings, L!Level
<1>2. CASE L!Pass
  BY <1>1, <1>2, SlotsOK DEF L!Pass, L!Actuate
<1>3. CASE UNCHANGED <<conditions, limp, seen>>
  BY <1>3 DEF LimpInv, L!ConditionsAreCurrent, L!Empty
<1>4. L!Next => L!Pass \/ UNCHANGED <<conditions, limp, seen>>
  BY DEF L!Next, L!Tooth, L!Turn, L!Stall, L!Skip, L!ReferenceTooth
<1> QED
  BY <1>2, <1>3, <1>4, PartsAreApart DEF outputsVars

LEMMA LimpInit == PartsInit => LimpInv
<1> SUFFICES ASSUME L!Init
             PROVE  LimpInv
  BY DEF PartsInit
<1>1. /\ conditions = [i \in 1 .. 5 |-> "None"] /\ limp = "Normal"
      /\ seen = [c \in L!Condition |-> "Normal"]
  BY DEF L!Init, L!Empty, L!Slots, L!NoCondition
<1> QED
  BY <1>1 DEF LimpInv, L!ConditionsAreCurrent, L!Empty, L!Slots, L!NoCondition, L!Level

\* ProtectionMonitor: the slots hold the conditions of the latest readings and no other, whatever
\* was in them, and the limp state is normal exactly when there are none.
THEOREM ConditionsKept == PartsSpec => []ConditionsAreCurrent
<1>1. LimpInv => ConditionsAreCurrent
  BY DEF LimpInv, ConditionsAreCurrent
<1> QED
  BY <1>1, LimpInit, LimpStep, PTL DEF PartsSpec
=============================================================================
