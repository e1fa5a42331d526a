--------------------------- MODULE OverridePromise ---------------------------
(***************************************************************************)
(* What engine-core/src/comms/control.rs and docs/api/05 2.2 promise of a  *)
(* control override: it acts for its time, of at most MaxTimeout, and no   *)
(* longer than until it is cleared or the connection ends.  The outputs    *)
(* follow within Step.  Time is unbounded here: only what is left of an    *)
(* override is kept, not when it ends.                                     *)
(***************************************************************************)
EXTENDS Integers

CONSTANTS
    Target,     \* the overrides that have an output
    MaxTimeout, \* the longest time one lasts
    Step,       \* the outputs follow within this time
    Lapses      \* what may pass from one look to the next

VARIABLES
    connected,
    left,       \* what is left of each override
    unseen,     \* time since the outputs were last set
    acting      \* the overrides the outputs show

Init ==
    /\ connected = FALSE /\ unseen = 0
    /\ left = [t \in Target |-> 0] /\ acting = [t \in Target |-> FALSE]

Set(t) ==
    /\ connected
    /\ \E timeout \in 1 .. MaxTimeout : left' = [left EXCEPT ![t] = timeout]
    /\ UNCHANGED <<connected, unseen, acting>>

Clear(t) ==
    /\ connected
    /\ left' = [left EXCEPT ![t] = 0]
    /\ UNCHANGED <<connected, unseen, acting>>

Connect ==
    /\ ~connected /\ connected' = TRUE /\ unseen' = 0
    /\ acting' = [t \in Target |-> FALSE]
    /\ UNCHANGED left

Disconnect ==
    /\ connected /\ connected' = FALSE /\ unseen' = 0
    /\ left' = [t \in Target |-> 0] /\ acting' = [t \in Target |-> FALSE]

Elapse(d) ==
    /\ connected
    /\ left' = [t \in Target |-> IF left[t] > d THEN left[t] - d ELSE 0]
    /\ \/ unseen' = 0 /\ acting' = [t \in Target |-> left'[t] > 0]
       \/ unseen' = unseen + d /\ unseen' < Step /\ UNCHANGED acting
    /\ UNCHANGED connected

Next ==
    \/ \E t \in Target : Set(t) \/ Clear(t)
    \/ Connect \/ Disconnect
    \/ \E d \in Lapses : Elapse(d)

Spec == Init /\ [][Next]_<<connected, left, unseen, acting>>
=============================================================================
