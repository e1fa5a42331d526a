------------------------------ MODULE Gearbox ------------------------------
(***************************************************************************)
(* The transmission control unit (engine-core/src/tcu.rs) on its own:      *)
(* requests for a gear, shifts up and down, automatic mode, and the timer  *)
(* of a shift.  Fewer manual gears are enough; no path of the code enters  *)
(* the states Protection and Fault, and Sport and Economy act as Manual.   *)
(***************************************************************************)
EXTENDS Integers

CONSTANTS
    Top,        \* the highest manual gear (6); gears 1 .. Top
    Shift,      \* TcuConfig.shift_duration_ms
    Lapses      \* values of dt_ms

\* The gears: the manual ones by number, from First.
Drive == 0
Neutral == -1
Reverse == -2
Park == -3
Gear == Park .. Top

VARIABLES
    current_gear, target_gear, mode, state, shift_timer,
    \* history
    begun,      \* the gear that was asked for when the latest shift began
    since,      \* time of the updates since then
    took        \* that time, when the latest shift to end did so

vars == <<current_gear, target_gear, mode, state, shift_timer, begun, since, took>>

Init ==
    /\ current_gear = Neutral /\ target_gear = Neutral /\ mode = "Manual"
    /\ state = "Normal" /\ shift_timer = 0
    /\ begun = Neutral /\ since = Shift /\ took = Shift

\* What the proofs ask of the constants: times are whole.
Parameters == Top \in Nat \ {0} /\ Shift \in Nat /\ Lapses \subseteq Nat

Less(a, b) == IF a < b THEN 0 ELSE a - b
Least(a, b) == IF a < b THEN a ELSE b

SetMode(m) ==
    /\ mode' = m
    /\ UNCHANGED <<current_gear, target_gear, state, shift_timer, begun, since, took>>

\* request_gear of a box with gear g in mesh and no shift under way: out of Park and Neutral at
\* once, else in the time of a shift.
Engage(g, gear, spent) ==
    /\ target_gear' = gear
    /\ IF gear = g \/ g \in {Park, Neutral}
       THEN /\ current_gear' = gear /\ state' = "Normal" /\ since' = spent
            /\ UNCHANGED <<shift_timer, begun>>
       ELSE /\ current_gear' = g /\ state' = "Shifting" /\ shift_timer' = Shift
            /\ begun' = gear /\ since' = 0

\* mutant: a request during a shift gives it another target
Request_Retarget(gear) ==
    /\ IF state = "Normal" THEN Engage(current_gear, gear, since)
       ELSE target_gear' = gear /\ UNCHANGED <<current_gear, state, shift_timer, begun, since>>
    /\ UNCHANGED <<mode, took>>
\* request_gear; during a shift it is lost.
Request(gear) ==
    /\ state = "Normal" /\ Engage(current_gear, gear, since)
    /\ UNCHANGED <<mode, took>>

\* upshift and downshift: none from Park, Reverse, Neutral or Drive.
Higher(g) == Least(g + 1, Top)
Lower(g) == IF g = 1 THEN 1 ELSE g - 1
Upshift == current_gear \in 1 .. Top /\ Request(Higher(current_gear))
Downshift == current_gear \in 1 .. Top /\ Request(Lower(current_gear))

\* update: the shift goes on and perhaps ends; then, in automatic mode, the speed of the engine
\* may begin the next one.  An automatic box in Drive has no higher or lower gear.
Update(rpm, dt) ==
    LET ends == state = "Shifting" /\ shift_timer <= dt
        g == IF ends THEN target_gear ELSE current_gear
        s == IF ends THEN "Normal" ELSE state
        spent == Least(since + dt, Shift)
    IN /\ took' = IF ends THEN spent ELSE took
       /\ UNCHANGED mode
       /\ IF mode = "Automatic" /\ s = "Normal" /\ g \in 1 .. Top /\ rpm # "between"
          THEN Engage(g, IF rpm = "high" THEN Higher(g) ELSE Lower(g), spent)
          ELSE /\ current_gear' = g /\ state' = s /\ since' = spent
               /\ shift_timer' = IF state = "Shifting" THEN Less(shift_timer, dt) ELSE shift_timer
               /\ UNCHANGED <<target_gear, begun>>

Next ==
    \/ \E m \in {"Manual", "Automatic"} : SetMode(m)
    \/ \E gear \in Gear : Request(gear)
    \/ Upshift \/ Downshift
    \/ \E rpm \in {"high", "between", "low"}, dt \in Lapses : Update(rpm, dt)

Spec == Init /\ [][Next]_vars

----------------------------------------------------------------------------

\* The gear in mesh changes out of Park or Neutral, or when a shift has had its whole time, and
\* then to the gear that was asked for when it began: requests and changes of mode in between,
\* and an automatic shift that begins in the update that ends it, neither hurry nor redirect it.
ShiftIsWhole ==
    [][current_gear' # current_gear =>
        current_gear \in {Park, Neutral} \/ (current_gear' = begun /\ took' = Shift)]_vars
=============================================================================
