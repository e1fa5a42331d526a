------------------------------ MODULE Overrides ------------------------------
(***************************************************************************)
(* Control overrides (engine-core/src/comms/control.rs) as the simulator   *)
(* serves them (sim/src/serve.rs): requests set and clear slots with an    *)
(* expiry time, and the engine model looks at the slots of the targets it  *)
(* has every Step, if the clock says so.  Both times are on a clock that   *)
(* wraps; the unit is the pass of the loop, which waits for bytes for at   *)
(* most 5 ms.  Values are left out: an output shows its override or not.   *)
(***************************************************************************)
EXTENDS Integers, Sequences

CONSTANTS
    Target,     \* OverrideTarget
    Outputs,    \* the targets update_model looks at
    Wrap,       \* the clock counts modulo this (2^32)
    Step,       \* MODEL_STEP_MS
    MaxTimeout, \* the clamp in Overrides::set (30 000)
    Timeouts,   \* timeouts that hosts ask for
    Lapses,     \* time from one pass of the loop to the next
    None

ASSUME OverrideAssumption ==
    /\ Outputs \subseteq Target /\ None \notin 0 .. Wrap - 1
    /\ Step \in Nat \ {0} /\ MaxTimeout \in Nat \ {0} /\ Timeouts \subseteq Nat
    /\ Lapses \subseteq Nat \ {0} /\ Lapses # {}
    /\ Wrap \in Nat /\ \A d \in Lapses : MaxTimeout + Step + d < Wrap \div 2

VARIABLES
    now,        \* milliseconds since the start, as a u32
    slots,      \* Overrides.slots: when each override expires, or None
    connected,
    nextModel,  \* next_model_ms
    acting      \* the overrides that the telemetry snapshot shows

vars == <<now, slots, connected, nextModel, acting>>

Clock == 0 .. Wrap - 1

Init ==
    /\ now \in Clock /\ connected = FALSE /\ nextModel = 0
    /\ slots = [t \in Target |-> None] /\ acting = [t \in Outputs |-> FALSE]

\* mutant: the times are compared as plain numbers
Expired_Plain(t, at) == slots[t] # None /\ at >= slots[t]
\* The test in Overrides::get, for windows of less than half the clock.
Expired(t, at) == slots[t] # None /\ (at - slots[t]) % Wrap < (Wrap - 1) \div 2

\* update_model: every look drops what has expired.
UpdateModel(at) ==
    /\ slots' = [t \in Target |-> IF t \in Outputs /\ Expired(t, at) THEN None ELSE slots[t]]
    /\ acting' = [t \in Outputs |-> slots'[t] # None]
    /\ nextModel' = (at + Step) % Wrap

\* serve_connection, up to its first read.
Connect ==
    /\ ~connected /\ connected' = TRUE
    /\ UpdateModel(now)
    /\ UNCHANGED now

Pass(d) ==
    /\ connected
    /\ now' = (now + d) % Wrap
    /\ IF now' >= nextModel THEN UpdateModel(now') ELSE UNCHANGED <<slots, acting, nextModel>>
    /\ UNCHANGED connected

\* Nobody is served, time goes on.
Idle(d) ==
    /\ ~connected
    /\ now' = (now + d) % Wrap
    /\ UNCHANGED <<slots, connected, nextModel, acting>>

Clamped(timeout) == IF timeout < 1 THEN 1 ELSE IF timeout > MaxTimeout THEN MaxTimeout ELSE timeout

SetOverride(t, timeout) ==
    /\ connected
    /\ slots' = [slots EXCEPT ![t] = (now + Clamped(timeout)) % Wrap]
    /\ UNCHANGED <<now, connected, nextModel, acting>>

ClearOverride(t) ==
    /\ connected
    /\ slots' = [slots EXCEPT ![t] = None]
    /\ UNCHANGED <<now, connected, nextModel, acting>>

\* on_disconnect; the snapshot goes with serve_connection.
Disconnect ==
    /\ connected /\ connected' = FALSE
    /\ slots' = [t \in Target |-> None]
    /\ acting' = [t \in Outputs |-> FALSE]
    /\ UNCHANGED <<now, nextModel>>

Next ==
    \/ Connect \/ Disconnect
    \/ \E d \in Lapses : Pass(d) \/ Idle(d)
    \/ \E t \in Target : ClearOverride(t) \/ \E timeout \in Timeouts : SetOverride(t, timeout)

Spec == Init /\ [][Next]_vars

----------------------------------------------------------------------------
(* Properties.                                                             *)

\* The time from now to an instant of the clock at most half its range ahead, else 0.
Until(instant) ==
    LET ahead == (instant - now) % Wrap IN IF ahead < Wrap \div 2 THEN ahead ELSE 0

Promise == INSTANCE OverridePromise WITH
    Target <- Outputs,
    left <- [t \in Outputs |-> IF slots[t] = None THEN 0 ELSE Until(slots[t])],
    unseen <- IF connected THEN (now - (nextModel - Step)) % Wrap ELSE 0

\* Every override with an output keeps the promise of OverridePromise: "they expire after
\* timeout_ms, on explicit clear, or when the transport disconnects" (control.rs), on a clock that
\* wraps, with expiry noticed only when the engine model looks, and whatever hosts ask for.
OverridesFailSafe == Promise!Spec
=============================================================================
